---- MODULE Spec2Model ----
(***************************************************************************)
(* Frame deduplication and text-image alignment pipeline of               *)
(* amazing_videodoc-main (services/multimodal_service.py) together with   *)
(* the entry paths that start a processing task (routers/process.py,      *)
(* routers/download.py, routers/batch.py, services/video_processor.py).   *)
(*                                                                         *)
(* Three specifications share the variables below:                        *)
(*   SpecDedup  remove_duplicates as a function of bounded inputs          *)
(*   Spec       generate_multimodal_notes: the concurrent orchestrator     *)
(*   SpecEntry  the entry paths and the service instances they create      *)
(***************************************************************************)
EXTENDS Integers, Sequences, FiniteSets, TLC

VARIABLES
    sim_thresh,     \* self.sim_thresh as a rational <<numerator, denominator>>
    dd_pc,          \* remove_duplicates harness: "idle" | "input" | "once" | "twice"
    dd_paths,       \* paths argument
    dd_embeds,      \* embeds argument
    dd_out,         \* outcome of remove_duplicates(dd_paths, dd_embeds)
    dd_out2,        \* outcome of remove_duplicates on dd_out's result
    summaries,      \* data["summaries"]: the input segments, in order
    max_workers,    \* self.max_workers: the size of the thread pool
    orch_pc,        \* generate_multimodal_notes: "start" | "running" | "done" | "raised" | "idle"
    orch_exc,       \* the exception that left generate_multimodal_notes, or None
    lock,           \* self._lock: 0 when free, else the segment whose thread holds it
    emb_cache,      \* self._emb_cache: frame path -> vector
    local,          \* per segment: the worker thread's position and local variables
    completed,      \* history: the segments in the order their futures completed
    results,        \* the dict results: segment -> record
    final,          \* the assembled document, or NoDict
    steps,          \* history: the steps the threads of the run have taken
    meta_status,    \* task -> metadata["status"] kept by TaskManager ("none": no metadata)
    db_status,      \* task -> status column of the tasks table ("none": no row)
    background,     \* background jobs added by the routes and not yet run
    workflows,      \* the VideoProcessingWorkflow instances created so far
    requests,       \* history: task -> the POST /process/{task_id} last request and the number accepted
    fn_pc,          \* function harness: "idle" | "input" | "done"
    fn_in,          \* the function applied and its arguments
    fn_out,         \* what the call returned, with the outcomes of its external calls
    metadata,       \* TaskManager: task id -> contents of metadata.json
    tm_hist,        \* history: task id -> arguments of create_task and of the last write
    tm_call         \* TaskManager callers: the position of each thread inside a method

ddVars == <<dd_pc, dd_paths, dd_embeds, dd_out, dd_out2>>

orchVars == <<summaries, max_workers, orch_pc, orch_exc, lock, emb_cache, local,
              completed, results, final, steps>>

entryVars == <<meta_status, db_status, background, workflows, requests>>

fnVars == <<fn_pc, fn_in, fn_out>>

taskVars == <<metadata, tm_hist, tm_call>>

notOrchVars == <<sim_thresh, ddVars, entryVars, fnVars, taskVars>>

notDedupVars == <<orchVars, entryVars, fnVars, taskVars>>

notEntryVars == <<sim_thresh, ddVars, orchVars, fnVars, taskVars>>

notFnVars == <<sim_thresh, ddVars, orchVars, entryVars, taskVars>>

notTaskVars == <<sim_thresh, ddVars, orchVars, entryVars, fnVars>>

None == "None"

\* None where a dict is expected
NoDict == <<>>

(***************************************************************************)
(* Bounds of the model.                                                    *)
(***************************************************************************)
MaxLen == 5         \* longest list handed to remove_duplicates or _prefilter_by_hash
MaxSegs == 2        \* most segments in data["summaries"]
MaxWorkers == 2     \* largest max_concurrent_segments
BatchSz == 2        \* self.batch_sz: frames per provider call
MaxTasks == 2       \* number of task ids
MaxBatchJobs == 1   \* most batch jobs waiting to run at one time
MaxRequests == 2    \* most POST /process requests counted as accepted for one task
MaxDurSec == 120    \* longest segment handed to _choose_fps, in seconds
MaxFrames == 3      \* longest frame list handed to a single function call
MaxTempFrames == 2  \* longest frame list of a process_video_frames call with its directories
MaxMeta == 2        \* most task directories TaskManager creates
MaxCallers == 2     \* threads calling TaskManager methods at one time

(***************************************************************************)
(* Embedding vectors: two-dimensional with non-negative integer            *)
(* components, so that every comparison of cosines is exact.               *)
(*   <<1,0>> <<2,1>> <<1,2>> <<0,1>> are pairwise below 0.9;               *)
(*   <<1,1>> is above 0.9 with <<2,1>> and with <<1,2>>; <<0,0>> has       *)
(*   norm zero.                                                            *)
(***************************************************************************)
Vecs == {<<0, 0>>, <<1, 0>>, <<0, 1>>, <<1, 1>>, <<2, 1>>, <<1, 2>>}

\* similarity_threshold values: the default 0.9 and the largest cosine 1.0
Thresholds == {<<9, 10>>, <<1, 1>>}

Dot(a, b) == a[1] * b[1] + a[2] * b[2]

Norm2(a) == Dot(a, a)

\* A row of E: the vector e/||e|| kept as the pair (e, ||e||^2); a zero-norm
\* vector is left as it is, which is division by 1.
NormalizeRow(e) == IF Norm2(e) > 0 THEN [v |-> e, n2 |-> Norm2(e)]
                                   ELSE [v |-> e, n2 |-> 1]

\* The inner product of two rows, dot/sqrt(n2), kept as dot and n2.
InnerProduct(r1, r2) == [dot |-> Dot(r1.v, r2.v), n2 |-> r1.n2 * r2.n2]

\* ip1 <= ip2 for inner products of vectors with non-negative components
IPLeq(ip1, ip2) == ip1.dot * ip1.dot * ip2.n2 <= ip2.dot * ip2.dot * ip1.n2

\* float(D[0,0]) > self.sim_thresh
ExceedsThreshold(ip, thr) ==
    ip.dot * ip.dot * thr[2] * thr[2] > thr[1] * thr[1] * ip.n2

\* calc_similarity(e1, e2) > thr, with 0.0 for a zero norm
CalcSimilarityExceeds(e1, e2, thr) ==
    IF Norm2(e1) = 0 \/ Norm2(e2) = 0
    THEN 0 > thr[1]
    ELSE ExceedsThreshold([dot |-> Dot(e1, e2), n2 |-> Norm2(e1) * Norm2(e2)], thr)

Range(s) == {s[i] : i \in 1..Len(s)}

\* index.search(v, 1): the largest inner product of row i with the kept rows
IndexSearch(E, kept, i) ==
    LET ips == {InnerProduct(E[k], E[i]) : k \in Range(kept)}
    IN  CHOOSE m \in ips : \A o \in ips : IPLeq(o, m)

\* ip >= thr, the comparison the code does not make
ReachesThreshold(ip, thr) ==
    ip.dot * ip.dot * thr[2] * thr[2] >= thr[1] * thr[1] * ip.n2

\* Mutant of DedupStep: the candidate is compared with the threshold by >=.
DedupStepGeq(E, thr, kept, i) ==
    IF kept # <<>> /\ ReachesThreshold(IndexSearch(E, kept, i), thr)
    THEN kept
    ELSE Append(kept, i)

\* Mutant of DedupStep: a kept frame is put in front of the kept list.
DedupStepPrepend(E, thr, kept, i) ==
    IF kept # <<>> /\ ExceedsThreshold(IndexSearch(E, kept, i), thr)
    THEN kept
    ELSE <<i>> \o kept

\* Mutant of DedupStep: the candidate is compared with the last kept row only.
DedupStepLastOnly(E, thr, kept, i) ==
    IF kept # <<>> /\ ExceedsThreshold(InnerProduct(E[kept[Len(kept)]], E[i]), thr)
    THEN kept
    ELSE Append(kept, i)

\* Mutant of DedupStep: the candidate is skipped when it is NOT above the threshold.
DedupStepInverted(E, thr, kept, i) ==
    IF kept # <<>> /\ ~ExceedsThreshold(IndexSearch(E, kept, i), thr)
    THEN kept
    ELSE Append(kept, i)

\* Mutant of DedupStep: a degenerate (zero-norm) embedding is skipped.
DedupStepSkipZero(E, thr, kept, i) ==
    IF Norm2(E[i].v) = 0 \/ (kept # <<>> /\ ExceedsThreshold(IndexSearch(E, kept, i), thr))
    THEN kept
    ELSE Append(kept, i)

\* One iteration of "for i,v in enumerate(E)": skip the candidate when its
\* best inner product with the index exceeds the threshold, else keep it and
\* add its row to the index (added = the index is not empty).
DedupStep(E, thr, kept, i) ==
    IF kept # <<>> /\ ExceedsThreshold(IndexSearch(E, kept, i), thr)
    THEN kept
    ELSE Append(kept, i)

RECURSIVE DedupLoop(_, _, _, _)
DedupLoop(E, thr, kept, i) ==
    IF i > Len(E) THEN kept
    ELSE DedupLoop(E, thr, DedupStep(E, thr, kept, i), i + 1)

\* remove_duplicates(paths, embeds): [err, kept (indices into paths), result]
remove_duplicates(paths, embeds, thr) ==
    IF Len(paths) # Len(embeds)
    THEN [err |-> "ValueError", kept |-> <<>>, result |-> <<>>]
    ELSE IF paths = <<>>
    THEN [err |-> None, kept |-> <<>>, result |-> <<>>]
    ELSE LET E == [i \in 1..Len(embeds) |-> NormalizeRow(embeds[i])]
             kept == DedupLoop(E, thr, <<>>, 1)
         IN  [err |-> None, kept |-> kept,
              result |-> [j \in 1..Len(kept) |-> paths[kept[j]]]]

(***************************************************************************)
(* SpecDedup: remove_duplicates applied to every list of at most MaxLen    *)
(* vectors (paths are the distinct names 1..n, one more than the vectors   *)
(* in the mismatched case), then applied again to its own output.          *)
(***************************************************************************)
SeqsUpTo(S, n) == UNION {[1..k -> S] : k \in 0..n}

DedupInit ==
    /\ sim_thresh \in Thresholds
    /\ dd_pc = "input"
    /\ dd_embeds \in SeqsUpTo(Vecs, MaxLen)
    /\ dd_paths \in {[i \in 1..Len(dd_embeds) |-> i],
                     [i \in 1..(Len(dd_embeds) + 1) |-> i]}
    /\ dd_out = None
    /\ dd_out2 = None

DedupOnce ==
    /\ dd_pc = "input"
    /\ dd_out' = remove_duplicates(dd_paths, dd_embeds, sim_thresh)
    /\ dd_pc' = "once"
    /\ UNCHANGED <<sim_thresh, dd_paths, dd_embeds, dd_out2>>
    /\ UNCHANGED notDedupVars

\* the caller hands the surviving paths back with their own vectors
DedupTwice ==
    /\ dd_pc = "once"
    /\ dd_out.err = None
    /\ dd_out2' = remove_duplicates(dd_out.result,
                       [j \in 1..Len(dd_out.kept) |-> dd_embeds[dd_out.kept[j]]],
                       sim_thresh)
    /\ dd_pc' = "twice"
    /\ UNCHANGED <<sim_thresh, dd_paths, dd_embeds, dd_out>>
    /\ UNCHANGED notDedupVars

DedupNext == DedupOnce \/ DedupTwice

vars == <<sim_thresh, ddVars, orchVars, entryVars, fnVars, taskVars>>

FnIdle == fn_pc = "idle" /\ fn_in = None /\ fn_out = None

TaskIdle == metadata = <<>> /\ tm_hist = <<>> /\ tm_call = <<>>

EntryIdle ==
    /\ meta_status = <<>> /\ db_status = <<>> /\ background = {} /\ workflows = <<>>
    /\ requests = <<>>

DedupIdle ==
    /\ dd_pc = "idle" /\ dd_paths = <<>> /\ dd_embeds = <<>>
    /\ dd_out = None /\ dd_out2 = None

OrchIdle ==
    /\ summaries = <<>> /\ max_workers = 1 /\ orch_pc = "idle" /\ orch_exc = None /\ lock = 0
    /\ emb_cache = <<>> /\ local = <<>> /\ completed = <<>>
    /\ results = <<>> /\ final = NoDict /\ steps = 0

\* the initial states of SpecDedup: an input is chosen, the rest is idle
DedupStart == DedupInit /\ OrchIdle /\ EntryIdle /\ FnIdle /\ TaskIdle

SpecDedup == DedupStart /\ [][DedupNext]_vars

(***************************************************************************)
(* Timestamps "HH:MM:SS.mmm" are kept split at ':' and '.':                *)
(* <<h, m, <<s, ms>>>>.  A string with fewer than three ':' parts is       *)
(* malformed (IndexError, re-raised as ValueError by _parse_time).         *)
(***************************************************************************)
TS_0 == <<0, 0, <<0, 0>>>>          \* "00:00:00.000"
TS_10 == <<0, 0, <<10, 0>>>>        \* "00:00:10.000"
TS_20 == <<0, 0, <<20>>>>           \* "00:00:20"
TS_bad == <<0, 10>>                 \* "00:10"

\* _parse_time: milliseconds, or not ok when the string is malformed
ParseTime(t) ==
    IF Len(t) < 3 \/ Len(t[3]) < 1
    THEN [ok |-> FALSE, ms |-> 0]
    ELSE [ok |-> TRUE,
          ms |-> (t[1] * 3600 + t[2] * 60 + t[3][1]) * 1000
                 + (IF Len(t[3]) > 1 THEN t[3][2] ELSE 0)]

\* text_summary.strip() is empty
IsBlank(summary) == summary \in {"", "  "}

\* the segments a summary file may hold
SegChoices ==
    { [start_time |-> TS_0,  end_time |-> TS_10,  summary |-> "  "],
      [start_time |-> TS_10, end_time |-> TS_20,  summary |-> "beta"],
      [start_time |-> TS_0,  end_time |-> TS_bad, summary |-> "alpha"],
      [start_time |-> TS_20, end_time |-> TS_20,  summary |-> "alpha"],
      [start_time |-> TS_10, end_time |-> TS_20,  summary |-> "  "] }

(***************************************************************************)
(* The video: what the frame-sampling tool writes for a time range, as the *)
(* sequence of frame contents.  A content has an average hash and an       *)
(* embedding: "a" and "b" differ in hash and share an embedding; "a", "e", *)
(* "f", "c" are pairwise below the threshold 0.9.                          *)
(***************************************************************************)
VideoFrames(start_ms, end_ms) ==
    IF start_ms = 0 /\ end_ms = 10000 THEN <<"a", "a", "b", "c">>
    ELSE IF start_ms = 10000 /\ end_ms = 20000 THEN <<"a", "e", "f", "c">>
    ELSE <<"a">>

\* _ahash of an image with this content
AHash(kind) == CASE kind = "a" -> 1 [] kind = "b" -> 2 [] kind = "c" -> 3
                 [] kind = "e" -> 5 [] kind = "f" -> 6

\* the provider's embedding of an image with this content
ImageVec(kind) == CASE kind = "a" -> <<1, 0>> [] kind = "b" -> <<1, 0>>
                    [] kind = "c" -> <<0, 1>> [] kind = "e" -> <<2, 1>>
                    [] kind = "f" -> <<1, 2>>

\* the provider's embedding of a text (input_type="search_query")
TextVec(summary) == IF summary = "beta" THEN <<1, 2>> ELSE <<1, 0>>

max_aligned_frames == 3

\* settings.MULTIMODAL_ENABLE_TEXT_ALIGNMENT
enable_text_alignment == TRUE

Segs == 1..Len(summaries)

\* Mutant of TempDir: one fixed directory instead of a fresh one per call.
TempDirFixed(k) == <<"video_dedup_", 0>>

\* tempfile.mkdtemp(prefix="video_dedup_"): a directory no other call has
TempDir(k) == <<"video_dedup_", k>>

\* the frame files the tool leaves in temp_dir: frame_%06d.jpg, sorted
extract_frames(k, start_ms, end_ms) ==
    LET clip == VideoFrames(start_ms, end_ms)
    IN  [n \in 1..Len(clip) |->
            [p |-> [dir |-> TempDir(k), n |-> n], kind |-> clip[n]]]

\* Image.open raises for the file with this content (an unreadable file)
HashFails(kind) == kind = "x"

\* Mutant of PrefilterStep: a frame whose hash cannot be computed is dropped.
PrefilterStepDropFailed(st, f) ==
    IF HashFails(f.kind) THEN st
    ELSE IF AHash(f.kind) \in st.seen THEN st
    ELSE [seen |-> st.seen \cup {AHash(f.kind)}, out |-> Append(st.out, f)]

\* one iteration of "for p in paths": a frame whose hash raises is appended
\* (except branch), a frame whose hash was seen is skipped, any other frame
\* is appended and its hash recorded
PrefilterStep(st, f) ==
    IF HashFails(f.kind) THEN [seen |-> st.seen, out |-> Append(st.out, f)]
    ELSE IF AHash(f.kind) \in st.seen THEN st
    ELSE [seen |-> st.seen \cup {AHash(f.kind)}, out |-> Append(st.out, f)]

\* _prefilter_by_hash: drop a frame whose hash was seen before, in order
RECURSIVE PrefilterLoop(_, _, _, _)
PrefilterLoop(fr, i, seen, out) ==
    IF i > Len(fr) THEN out
    ELSE LET st == PrefilterStep([seen |-> seen, out |-> out], fr[i])
         IN  PrefilterLoop(fr, i + 1, st.seen, st.out)

prefilter_by_hash(fr) == PrefilterLoop(fr, 1, {}, <<>>)

Min(a, b) == IF a < b THEN a ELSE b

\* paths[:n]
Take(s, n) == SubSeq(s, 1, Min(n, Len(s)))

RECURSIVE SeqFilterInCache(_, _, _)
SeqFilterInCache(batch, cache, want) ==
    IF batch = <<>> THEN <<>>
    ELSE IF (Head(batch).p \in DOMAIN cache) = want
         THEN <<Head(batch)>> \o SeqFilterInCache(Tail(batch), cache, want)
         ELSE SeqFilterInCache(Tail(batch), cache, want)

\* generate_embeddings, from the batch at i up to the next provider call:
\* cached frames go straight to embeds/success, the others to need; a batch
\* with nothing to send is skipped ("if not data:continue").
RECURSIVE AdvanceBatches(_, _, _, _, _)
AdvanceBatches(fr, i, cache, embeds, success) ==
    IF i > Len(fr)
    THEN [done |-> TRUE, i |-> i, need |-> <<>>, embeds |-> embeds, success |-> success]
    ELSE LET batch == SubSeq(fr, i, Min(i + BatchSz - 1, Len(fr)))
             hit == SeqFilterInCache(batch, cache, TRUE)
             need == SeqFilterInCache(batch, cache, FALSE)
             e2 == embeds \o [j \in 1..Len(hit) |-> cache[hit[j].p]]
             s2 == success \o [j \in 1..Len(hit) |-> hit[j].p]
         IN  IF need = <<>>
             THEN AdvanceBatches(fr, i + BatchSz, cache, e2, s2)
             ELSE [done |-> FALSE, i |-> i, need |-> need, embeds |-> e2, success |-> s2]

\* segment_<start>_to_<end> under frames_dir
SegDir(seg) == <<"frames", seg.start_time, seg.end_time>>

\* save_unique_frames: the i-th path is copied to unique_frame_<i>.jpg
save_unique_frames(paths, output_dir) ==
    [i \in 1..Len(paths) |-> [dir |-> output_dir, n |-> i]]

\* calc_similarity(t, v) as dot and squared norms; 0.0 for a zero norm
calc_similarity(e1, e2) ==
    IF Norm2(e1) = 0 \/ Norm2(e2) = 0
    THEN [dot |-> 0, n2 |-> 1]
    ELSE [dot |-> Dot(e1, e2), n2 |-> Norm2(e1) * Norm2(e2)]

\* sorted(range(len(sims)), key=sims, reverse=True): stable, so equal
\* similarities keep their original order
SortedDesc(sims) ==
    LET before(i, j) == \/ ~IPLeq(sims[i], sims[j])
                        \/ (IPLeq(sims[j], sims[i]) /\ IPLeq(sims[i], sims[j]) /\ i < j)
        rank(i) == 1 + Cardinality({j \in 1..Len(sims) : j # i /\ before(j, i)})
    IN  [r \in 1..Len(sims) |-> CHOOSE i \in 1..Len(sims) : rank(i) = r]

\* align_frames_with_text once the text vector t is there: every path has
\* its vector in embeds, so nothing is missing
AlignRanked(frame_paths, embed_map, t) ==
    LET sims == [i \in 1..Len(frame_paths) |-> calc_similarity(t, embed_map[frame_paths[i]])]
        idx == SortedDesc(sims)
    IN  [j \in 1..Min(max_aligned_frames, Len(frame_paths)) |-> frame_paths[idx[j]]]

\* the dict _process_segment returns, or the exception its last line raises
\* when a timestamp is malformed; times are kept in milliseconds
ProcessSegmentReturn(k, seg, rel_paths) ==
    IF ParseTime(seg.end_time).ok /\ ParseTime(seg.start_time).ok
    THEN [exc |-> FALSE,
          result |-> [segment_id |-> k, start_time |-> seg.start_time,
                      end_time |-> seg.end_time,
                      duration_seconds |-> ParseTime(seg.end_time).ms
                                           - ParseTime(seg.start_time).ms,
                      summary |-> seg.summary, key_frames |-> rel_paths,
                      frame_count |-> Len(rel_paths)]]
    ELSE [exc |-> TRUE, result |-> NoDict]

\* the dict the orchestrator stores when future.result() raises
DegradedResult(k) ==
    [segment_id |-> k, start_time |-> summaries[k].start_time,
     end_time |-> summaries[k].end_time, duration_seconds |-> 0,
     summary |-> summaries[k].summary, key_frames |-> <<>>, frame_count |-> 0]

\* fault is a history field: "none" | "raised" (an exception left a stage)
\* | "degraded" (a provider batch failed and was dropped) | "fallback" (the
\* text call failed and the first frames were taken).  hist is a history
\* field: the batches handed to the provider in order, the paths of the
\* batches whose call raised, the lengths of the two arguments of
\* remove_duplicates (<<>> until it is called), and the stages the thread
\* has entered, in order.
LocalInit ==
    [pc |-> "queued", frames |-> <<>>, i |-> 1, need |-> <<>>, emb |-> <<>>,
     embeds |-> <<>>, success |-> <<>>, frame_paths |-> <<>>, embed_map |-> <<>>,
     fault |-> "none", future |-> NoDict,
     hist |-> [sent |-> <<>>, failed |-> {}, dd_len |-> <<>>, stages |-> <<>>]]

\* the thread is done and its locals are gone: its future holds the result
\* or the exception
Finished(k, loc, rel_paths) ==
    [LocalInit EXCEPT !.pc = "finished", !.fault = loc.fault, !.hist = loc.hist,
                      !.future = ProcessSegmentReturn(k, summaries[k], rel_paths)]

\* Mutant of AfterEmbeddings: with an alignment to come the deduplicated
\* frames are handed to it unsaved.
AfterEmbeddingsSaveLate(k, loc, save_ok) ==
    LET seg == summaries[k]
        fr == IF Len(loc.embeds) # Len(loc.frames)
              THEN loc.success
              ELSE [j \in 1..Len(loc.frames) |-> loc.frames[j].p]
        dd == remove_duplicates(fr, loc.embeds, sim_thresh)
        saved == save_unique_frames(dd.result, SegDir(seg))
        ftomap == [p \in Range(fr) |->
                      loc.embeds[CHOOSE j \in 1..Len(fr) :
                                    fr[j] = p /\ \A j2 \in 1..Len(fr) : fr[j2] = p => j2 <= j]]
        embed_map == [sp \in Range(saved) |-> ftomap[dd.result[sp.n]]]
        l3 == [loc EXCEPT !.hist.dd_len = <<Len(fr), Len(loc.embeds)>>,
                          !.hist.stages = Append(@, "dedupe")]
        l4 == [l3 EXCEPT !.hist.stages = Append(@, "save")]
    IN  IF dd.err # None
        THEN Finished(k, [l3 EXCEPT !.fault = "raised"], <<>>)
        ELSE IF enable_text_alignment /\ ~IsBlank(seg.summary) /\ saved # <<>>
        THEN [l3 EXCEPT !.pc = "text_call", !.need = <<>>, !.emb = <<>>,
                        !.frame_paths = saved, !.embed_map = embed_map]
        ELSE IF ~save_ok
        THEN Finished(k, [l4 EXCEPT !.fault = "raised"], <<>>)
        ELSE Finished(k, [l4 EXCEPT !.frame_paths = saved, !.embed_map = embed_map], saved)

\* process_video_frames after generate_embeddings, and extract_segment_frames
\* after it: dedup ("3. Removing duplicates..."), save ("4. Saving unique
\* frames..."), then either the text call of align_frames_with_text begins
\* or the saved paths are the segment's frames.  save_ok = FALSE: the save
\* stage raises (os.makedirs), caught by extract_segment_frames.
AfterEmbeddings(k, loc, save_ok) ==
    LET seg == summaries[k]
        fr == IF Len(loc.embeds) # Len(loc.frames)
              THEN loc.success
              ELSE [j \in 1..Len(loc.frames) |-> loc.frames[j].p]
        dd == remove_duplicates(fr, loc.embeds, sim_thresh)
        saved == save_unique_frames(dd.result, SegDir(seg))
        ftomap == [p \in Range(fr) |->
                      loc.embeds[CHOOSE j \in 1..Len(fr) :
                                    fr[j] = p /\ \A j2 \in 1..Len(fr) : fr[j2] = p => j2 <= j]]
        embed_map == [sp \in Range(saved) |-> ftomap[dd.result[sp.n]]]
        l3 == [loc EXCEPT !.hist.dd_len = <<Len(fr), Len(loc.embeds)>>,
                          !.hist.stages = Append(@, "dedupe")]
        l4 == [l3 EXCEPT !.hist.stages = Append(@, "save")]
    IN  IF dd.err # None
        THEN Finished(k, [l3 EXCEPT !.fault = "raised"], <<>>)
        ELSE IF ~save_ok
        THEN Finished(k, [l4 EXCEPT !.fault = "raised"], <<>>)
        ELSE IF enable_text_alignment /\ ~IsBlank(seg.summary) /\ saved # <<>>
        THEN [l4 EXCEPT !.pc = "text_call", !.need = <<>>, !.emb = <<>>,
                        !.frame_paths = saved, !.embed_map = embed_map]
        ELSE Finished(k, [l4 EXCEPT !.frame_paths = saved, !.embed_map = embed_map], saved)

\* generate_embeddings from batch i on: stop before the next provider call,
\* or go on with the rest of the segment when no batch is left
Proceed(k, loc, i, cache, save_ok) ==
    LET adv == AdvanceBatches(loc.frames, i, cache, loc.embeds, loc.success)
        l2 == [loc EXCEPT !.i = adv.i, !.need = adv.need, !.emb = <<>>,
                          !.embeds = adv.embeds, !.success = adv.success]
    IN  IF adv.done THEN AfterEmbeddings(k, l2, save_ok)
        ELSE [l2 EXCEPT !.pc = "emb_wait"]

Running == {k \in Segs : local[k].pc \notin {"queued", "finished"}}

\* the completion order, with segment k added once its thread is done
NowCompleted(k, loc) ==
    IF loc[k].pc = "finished" /\ k \notin Range(completed)
    THEN Append(completed, k) ELSE completed

(***************************************************************************)
(* Spec: one call of generate_multimodal_notes.                            *)
(***************************************************************************)
Init ==
    /\ sim_thresh = <<9, 10>>
    /\ DedupIdle
    /\ summaries \in SeqsUpTo(SegChoices, MaxSegs)
    /\ max_workers \in 1..MaxWorkers
    /\ orch_pc = "start"
    /\ orch_exc = None
    /\ lock = 0
    /\ emb_cache = <<>>
    /\ local = [k \in 1..Len(summaries) |-> LocalInit]
    /\ completed = <<>>
    /\ results = <<>>
    /\ final = NoDict
    /\ steps = 0
    /\ EntryIdle
    /\ FnIdle
    /\ TaskIdle

\* lines 297-308: an empty summaries list raises, else every segment is submitted
Submit ==
    /\ orch_pc = "start"
    /\ IF summaries = <<>>
       THEN orch_pc' = "raised" /\ orch_exc' = "ValueError"
       ELSE orch_pc' = "running" /\ orch_exc' = orch_exc
    /\ UNCHANGED <<summaries, max_workers, lock, emb_cache, local, completed, results, final>>
    /\ steps' = steps + 1
    /\ UNCHANGED notOrchVars

\* a free worker takes the next queued task: _process_segment up to the
\* frame extraction.  Malformed timestamps raise in extract_segment_frames
\* (caught in _process_segment) and again in the return statement.
StartSegment(k) ==
    /\ orch_pc = "running"
    /\ local[k].pc = "queued"
    /\ \A j \in Segs : j < k => local[j].pc # "queued"
    /\ Cardinality(Running) < max_workers
    /\ LET seg == summaries[k]
       IN  IF ParseTime(seg.start_time).ok /\ ParseTime(seg.end_time).ok
           THEN local' = [local EXCEPT ![k].pc = "extract"]
           ELSE local' = [local EXCEPT ![k] = Finished(k, [@ EXCEPT !.fault = "raised"], <<>>)]
    /\ completed' = NowCompleted(k, local')
    /\ UNCHANGED <<summaries, max_workers, orch_pc, orch_exc, lock, emb_cache, results, final>>
    /\ steps' = steps + 1
    /\ UNCHANGED notOrchVars

\* process_video_frames: the tool runs; it fails (missing video, exit code,
\* no frame, start >= end) or leaves the frames, which are prefiltered in
\* process_video_frames and again in generate_embeddings
ExtractFrames(k) ==
    /\ orch_pc = "running"
    /\ local[k].pc = "extract"
    /\ \E tool_ok \in BOOLEAN, save_ok \in BOOLEAN :
          LET seg == summaries[k]
              s == ParseTime(seg.start_time).ms
              e == ParseTime(seg.end_time).ms
          IN  IF ~tool_ok \/ s >= e
              THEN local' = [local EXCEPT ![k] =
                                Finished(k, [@ EXCEPT !.fault = "raised",
                                                      !.hist.stages = <<"extract">>], <<>>)]
              ELSE LET fr1 == prefilter_by_hash(extract_frames(k, s, e))
                       fr2 == prefilter_by_hash(fr1)
                   IN  local' = [local EXCEPT ![k] =
                           Proceed(k, [@ EXCEPT !.frames = fr1,
                                                !.hist.stages = <<"extract", "filter", "embed">>],
                                   1, emb_cache, save_ok)]
    /\ completed' = NowCompleted(k, local')
    /\ UNCHANGED <<summaries, max_workers, orch_pc, orch_exc, lock, emb_cache, results, final>>
    /\ steps' = steps + 1
    /\ UNCHANGED notOrchVars

\* the paths of a list of frames
PathsIn(fr) == [j \in 1..Len(fr) |-> fr[j].p]

\* "with lock:" is entered
AcquireLock(k) ==
    /\ orch_pc = "running"
    /\ local[k].pc = "emb_wait"
    /\ lock = 0
    /\ lock' = k
    /\ local' = [local EXCEPT ![k].pc = "emb_call"]
    /\ UNCHANGED <<summaries, max_workers, orch_pc, orch_exc, emb_cache, completed, results, final>>
    /\ steps' = steps + 1
    /\ UNCHANGED notOrchVars

\* _call_api returns the vectors of the batch, and "with lock:" is left
ApiReturn(k) ==
    /\ orch_pc = "running"
    /\ local[k].pc = "emb_call"
    /\ lock' = 0
    /\ local' = [local EXCEPT ![k].pc = "emb_store",
                    ![k].emb = [j \in 1..Len(local[k].need) |-> ImageVec(local[k].need[j].kind)],
                    ![k].hist.sent = Append(@, PathsIn(local[k].need))]
    /\ UNCHANGED <<summaries, max_workers, orch_pc, orch_exc, emb_cache, completed, results, final>>
    /\ steps' = steps + 1
    /\ UNCHANGED notOrchVars

\* Mutant of ApiFail: the lock is not released when the call raises.
ApiFailKeepLock(k) ==
    /\ orch_pc = "running"
    /\ local[k].pc = "emb_call"
    /\ lock' = lock
    /\ \E save_ok \in BOOLEAN :
          local' = [local EXCEPT ![k] =
              Proceed(k, [@ EXCEPT !.fault = IF @ = "none" THEN "degraded" ELSE @,
                                   !.hist.sent = Append(@, PathsIn(local[k].need)),
                                   !.hist.failed = @ \cup Range(PathsIn(local[k].need))],
                      local[k].i + BatchSz, emb_cache, save_ok)]
    /\ completed' = NowCompleted(k, local')
    /\ UNCHANGED <<summaries, max_workers, orch_pc, orch_exc, emb_cache, results, final>>
    /\ steps' = steps + 1
    /\ UNCHANGED notOrchVars

\* Mutant of ApiFail: the batch whose call raised is sent again.
ApiFailRetry(k) ==
    /\ orch_pc = "running"
    /\ local[k].pc = "emb_call"
    /\ lock' = 0
    /\ \E save_ok \in BOOLEAN :
          local' = [local EXCEPT ![k] =
              Proceed(k, [@ EXCEPT !.fault = IF @ = "none" THEN "degraded" ELSE @,
                                   !.hist.sent = Append(@, PathsIn(local[k].need)),
                                   !.hist.failed = @ \cup Range(PathsIn(local[k].need))],
                      local[k].i, emb_cache, save_ok)]
    /\ completed' = NowCompleted(k, local')
    /\ UNCHANGED <<summaries, max_workers, orch_pc, orch_exc, emb_cache, results, final>>
    /\ steps' = steps + 1
    /\ UNCHANGED notOrchVars

\* _call_api raises: "with lock:" is left, the batch is logged and dropped
ApiFail(k) ==
    /\ orch_pc = "running"
    /\ local[k].pc = "emb_call"
    /\ lock' = 0
    /\ \E save_ok \in BOOLEAN :
          local' = [local EXCEPT ![k] =
              Proceed(k, [@ EXCEPT !.fault = IF @ = "none" THEN "degraded" ELSE @,
                                   !.hist.sent = Append(@, PathsIn(local[k].need)),
                                   !.hist.failed = @ \cup Range(PathsIn(local[k].need))],
                      local[k].i + BatchSz, emb_cache, save_ok)]
    /\ completed' = NowCompleted(k, local')
    /\ UNCHANGED <<summaries, max_workers, orch_pc, orch_exc, emb_cache, results, final>>
    /\ steps' = steps + 1
    /\ UNCHANGED notOrchVars

\* line 103: the vectors go to the cache and to embeds/success
StoreBatch(k) ==
    /\ orch_pc = "running"
    /\ local[k].pc = "emb_store"
    /\ LET need == local[k].need
           new == {need[j].p : j \in 1..Len(need)}
           cache2 == [p \in DOMAIN emb_cache \cup new |->
                        IF p \in new
                        THEN local[k].emb[CHOOSE j \in 1..Len(need) :
                                 need[j].p = p /\ \A j2 \in 1..Len(need) :
                                                     need[j2].p = p => j2 <= j]
                        ELSE emb_cache[p]]
       IN  /\ emb_cache' = cache2
           /\ \E save_ok \in BOOLEAN :
                 local' = [local EXCEPT ![k] =
                     Proceed(k, [@ EXCEPT !.embeds = @ \o local[k].emb,
                                          !.success = @ \o [j \in 1..Len(need) |-> need[j].p]],
                             local[k].i + BatchSz, cache2, save_ok)]
    /\ completed' = NowCompleted(k, local')
    /\ UNCHANGED <<summaries, max_workers, orch_pc, orch_exc, lock, results, final>>
    /\ steps' = steps + 1
    /\ UNCHANGED notOrchVars

\* align_frames_with_text: the text call returns; frames are ranked, the
\* best max_aligned_frames are saved to <seg_dir>/aligned
TextReturn(k) ==
    /\ orch_pc = "running"
    /\ local[k].pc = "text_call"
    /\ \E save_ok \in BOOLEAN :
          LET aligned == AlignRanked(local[k].frame_paths, local[k].embed_map,
                                     TextVec(summaries[k].summary))
              final_paths == save_unique_frames(aligned, <<SegDir(summaries[k]), "aligned">>)
              l5 == [local[k] EXCEPT !.hist.stages = @ \o <<"align", "save_aligned">>]
          IN  local' = [local EXCEPT ![k] =
                  IF save_ok THEN Finished(k, l5, final_paths)
                  ELSE Finished(k, [l5 EXCEPT !.fault = "raised"], <<>>)]
    /\ completed' = NowCompleted(k, local')
    /\ UNCHANGED <<summaries, max_workers, orch_pc, orch_exc, lock, emb_cache, results, final>>
    /\ steps' = steps + 1
    /\ UNCHANGED notOrchVars

\* the text call raises: the first max_aligned_frames paths are used
TextFail(k) ==
    /\ orch_pc = "running"
    /\ local[k].pc = "text_call"
    /\ \E save_ok \in BOOLEAN :
          LET aligned == Take(local[k].frame_paths, max_aligned_frames)
              final_paths == save_unique_frames(aligned, <<SegDir(summaries[k]), "aligned">>)
              l5 == [local[k] EXCEPT !.hist.stages = @ \o <<"align", "save_aligned">>]
          IN  local' = [local EXCEPT ![k] =
                  IF save_ok
                  THEN Finished(k, [l5 EXCEPT !.fault = IF @ = "none" THEN "fallback" ELSE @],
                                final_paths)
                  ELSE Finished(k, [l5 EXCEPT !.fault = "raised"], <<>>)]
    /\ completed' = NowCompleted(k, local')
    /\ UNCHANGED <<summaries, max_workers, orch_pc, orch_exc, lock, emb_cache, results, final>>
    /\ steps' = steps + 1
    /\ UNCHANGED notOrchVars

Collected == DOMAIN results

\* Mutant of Collect: future.result() is not guarded.
CollectNoCatch(k) ==
    /\ orch_pc = "running"
    /\ local[k].pc = "finished"
    /\ k \notin Collected
    /\ IF local[k].future.exc
       THEN orch_pc' = "raised" /\ orch_exc' = "ValueError" /\ results' = results
       ELSE /\ results' = [j \in Collected \cup {k} |->
                              IF j = k THEN local[k].future.result ELSE results[j]]
            /\ UNCHANGED <<orch_pc, orch_exc>>
    /\ UNCHANGED <<summaries, max_workers, lock, emb_cache, local, completed, final>>
    /\ steps' = steps + 1
    /\ UNCHANGED notOrchVars

\* as_completed yields a finished future: its result, or the degraded dict
\* when it raised, is stored under its index
Collect(k) ==
    /\ orch_pc = "running"
    /\ local[k].pc = "finished"
    /\ k \notin Collected
    /\ results' = [j \in Collected \cup {k} |->
                      IF j # k THEN results[j]
                      ELSE IF local[k].future.exc THEN DegradedResult(k)
                      ELSE local[k].future.result]
    /\ UNCHANGED <<summaries, max_workers, orch_pc, orch_exc, lock, emb_cache, local, completed, final>>
    /\ steps' = steps + 1
    /\ UNCHANGED notOrchVars

\* notes: "for i in range(len(summaries)): if i in results: notes.append"
RECURSIVE NotesInIndexOrder(_)
NotesInIndexOrder(i) ==
    IF i > Len(summaries) THEN <<>>
    ELSE (IF i \in Collected THEN <<results[i]>> ELSE <<>>) \o NotesInIndexOrder(i + 1)

RECURSIVE SumFrameCounts(_)
SumFrameCounts(notes) ==
    IF notes = <<>> THEN 0 ELSE Head(notes).frame_count + SumFrameCounts(Tail(notes))

\* Mutant of FinalDocument: every segment is counted as one with frames.
FinalDocumentCountsAll(notes) ==
    [video_info |-> [total_segments |-> Len(notes)],
     segments |-> notes,
     statistics |-> [total_frames |-> SumFrameCounts(notes),
                     segments_with_frames |-> Len(notes)]]

\* lines 325-330
FinalDocument(notes) ==
    [video_info |-> [total_segments |-> Len(notes)],
     segments |-> notes,
     statistics |-> [total_frames |-> SumFrameCounts(notes),
                     segments_with_frames |->
                        Cardinality({j \in 1..Len(notes) : notes[j].frame_count > 0})]]

\* Mutant of Assemble: the notes are taken in completion order.
AssembleCompletionOrder ==
    /\ orch_pc = "running"
    /\ Collected = Segs
    /\ final' = FinalDocument([j \in 1..Len(completed) |-> results[completed[j]]])
    /\ orch_pc' = "done"
    /\ UNCHANGED <<summaries, max_workers, orch_exc, lock, emb_cache, local, completed, results>>
    /\ steps' = steps + 1
    /\ UNCHANGED notOrchVars

\* lines 311-335: every future was yielded; the notes are rebuilt in index
\* order and the document is written
Assemble ==
    /\ orch_pc = "running"
    /\ Collected = Segs
    /\ final' = FinalDocument(NotesInIndexOrder(1))
    /\ orch_pc' = "done"
    /\ UNCHANGED <<summaries, max_workers, orch_exc, lock, emb_cache, local, completed, results>>
    /\ steps' = steps + 1
    /\ UNCHANGED notOrchVars

Next ==
    \/ Submit
    \/ \E k \in Segs : StartSegment(k)
    \/ \E k \in Segs : ExtractFrames(k)
    \/ \E k \in Segs : AcquireLock(k)
    \/ \E k \in Segs : ApiReturn(k)
    \/ \E k \in Segs : ApiFail(k)
    \/ \E k \in Segs : StoreBatch(k)
    \/ \E k \in Segs : TextReturn(k)
    \/ \E k \in Segs : TextFail(k)
    \/ \E k \in Segs : Collect(k)
    \/ Assemble

Spec == Init /\ [][Next]_vars

\* segment k's thread, or the collection of its future, has a step to take
CanStep(k) ==
    \/ local[k].pc \in {"extract", "emb_call", "emb_store", "text_call"}
    \/ local[k].pc = "emb_wait" /\ lock = 0
    \/ /\ local[k].pc = "queued"
       /\ \A j \in Segs : j < k => local[j].pc # "queued"
       /\ Cardinality(Running) < max_workers
    \/ local[k].pc = "finished" /\ k \notin Collected

\* some thread of the run takes a step: the guards of the actions of Next
ThreadStep ==
    /\ \/ orch_pc = "start"
       \/ orch_pc = "running" /\ (Collected = Segs \/ \E k \in Segs : CanStep(k))
    /\ steps' = steps + 1

\* Spec with the scheduling the thread pool gives: a pool thread or the
\* collecting thread that can take a step takes one (every subprocess and
\* provider call returns, with a result or an exception)
SpecLive == Init /\ [][Next]_vars /\ WF_steps(ThreadStep)

(***************************************************************************)
(* SpecEntry: the routes that start processing and the workflow (and       *)
(* MultimodalService, with its lock and cache) instances they create.      *)
(* A workflow record keeps the task_id it was constructed with, whether    *)
(* it holds a MultimodalService, the tasks process_video was called for    *)
(* on it (calls) and the tasks whose video reached                         *)
(* generate_multimodal_notes on its service (served).                      *)
(***************************************************************************)
TaskIds == 1..MaxTasks

\* injective sequences of task ids: request.task_ids
TaskLists ==
    {ts \in SeqsUpTo(TaskIds, MaxTasks) :
        ts # <<>> /\ \A i, j \in 1..Len(ts) : i # j => ts[i] # ts[j]}

EntryInit ==
    /\ sim_thresh = <<9, 10>>
    /\ DedupIdle
    /\ OrchIdle
    /\ meta_status \in [TaskIds -> {"none", "pending"}]
    /\ db_status \in [TaskIds -> {"none", "pending"}]
    /\ background = {}
    /\ workflows = <<>>
    /\ requests = [t \in TaskIds |-> [before |-> "none", code |-> 0, accepted |-> 0]]
    /\ FnIdle
    /\ TaskIdle

\* VideoProcessingWorkflow.__init__ and _init_services: the generator (and
\* its MultimodalService) exists when enable_multimodal is set and its
\* construction did not raise
VideoProcessingWorkflow(entry, enable_multimodal, task_id, generator_ok) ==
    [entry |-> entry, task_id |-> task_id,
     has_service |-> enable_multimodal /\ generator_ok,
     calls |-> {}, served |-> {}]

\* VideoProcessingWorkflow.process_video called with (video_path, output_dir,
\* keep_temp) for task t: the stages before the notes succeed or raise; the
\* notes stage runs on the workflow's own service
process_video(wf, t, stages_ok) ==
    [wf EXCEPT !.calls = @ \cup {t},
               !.served = IF stages_ok /\ wf.has_service THEN @ \cup {t} ELSE @]

\* class TaskManager defines no method assert_owner
HasAssertOwner == FALSE

\* the name MembershipPlan is bound when line 43 of start_processing reads it:
\* its only binding is the import inside the function, seven lines later
MembershipPlanBound == FALSE

\* the status code POST /process/{task_id} answers with, for a task whose
\* metadata has this status ("none": no metadata): 401 without credentials,
\* 500 for an exception that is no HTTPException, 404, 400, 429, else 200
StartResponse(status, authorized, over_quota) ==
    IF ~authorized THEN 401
    ELSE IF ~HasAssertOwner THEN 500
    ELSE IF status = "none" THEN 404
    ELSE IF status # "pending" THEN 400
    ELSE IF ~MembershipPlanBound THEN 500
    ELSE IF over_quota THEN 429
    ELSE 200

\* POST /process/{task_id}: only the handler that reaches its return adds
\* the background job and writes "processing"
start_processing(t) ==
    /\ requests[t].accepted < MaxRequests
    /\ \E authorized \in BOOLEAN, over_quota \in BOOLEAN :
          LET code == StartResponse(meta_status[t], authorized, over_quota)
          IN  /\ background' = IF code = 200
                               THEN background \cup {[kind |-> "process", tasks |-> <<t>>]}
                               ELSE background
              /\ meta_status' = [meta_status EXCEPT ![t] =
                                    IF code = 200 THEN "processing" ELSE @]
              /\ requests' = [requests EXCEPT ![t] =
                                 [before |-> meta_status[t], code |-> code,
                                  accepted |-> IF code = 200 THEN @.accepted + 1
                                               ELSE @.accepted]]
    /\ UNCHANGED <<db_status, workflows>>
    /\ UNCHANGED notEntryVars

\* the background job of start_processing; no request adds it as
\* start_processing stands, so it is no step of SpecEntry
process_video_background(t) ==
    /\ [kind |-> "process", tasks |-> <<t>>] \in background
    /\ background' = background \ {[kind |-> "process", tasks |-> <<t>>]}
    /\ \E enable_multimodal \in BOOLEAN, generator_ok \in BOOLEAN, stages_ok \in BOOLEAN :
          /\ workflows' = Append(workflows,
                process_video(VideoProcessingWorkflow("process", enable_multimodal, t,
                                                      generator_ok), t, stages_ok))
          /\ meta_status' = [meta_status EXCEPT ![t] =
                                IF stages_ok THEN "completed" ELSE "failed"]
    /\ UNCHANGED <<db_status, requests>>
    /\ UNCHANGED notEntryVars

\* POST /download-url: a new task is created and set to "downloading"
download_from_url(t) ==
    /\ meta_status[t] = "none"
    /\ background' = background \cup {[kind |-> "download", tasks |-> <<t>>]}
    /\ meta_status' = [meta_status EXCEPT ![t] = "downloading"]
    /\ UNCHANGED <<db_status, workflows, requests>>
    /\ UNCHANGED notEntryVars

\* the background job of download_from_url
download_and_process_video(t) ==
    /\ [kind |-> "download", tasks |-> <<t>>] \in background
    /\ background' = background \ {[kind |-> "download", tasks |-> <<t>>]}
    /\ \E download_ok \in BOOLEAN, generator_ok \in BOOLEAN, stages_ok \in BOOLEAN :
          IF ~download_ok
          THEN /\ meta_status' = [meta_status EXCEPT ![t] = "failed"]
               /\ workflows' = workflows
          ELSE /\ workflows' = Append(workflows,
                     process_video(VideoProcessingWorkflow("download", TRUE, t, generator_ok),
                                   t, stages_ok))
               /\ meta_status' = [meta_status EXCEPT ![t] =
                                     IF stages_ok THEN "completed" ELSE "failed"]
    /\ UNCHANGED <<db_status, requests>>
    /\ UNCHANGED notEntryVars

BatchJobs == {j \in background : j.kind = "batch"}

\* POST /batch/process: every task of the request is a pending row
batch_process_videos(ts) ==
    /\ \A i \in 1..Len(ts) : db_status[ts[i]] = "pending"
    /\ Cardinality(BatchJobs) < MaxBatchJobs
    /\ background' = background \cup {[kind |-> "batch", tasks |-> ts]}
    /\ UNCHANGED <<meta_status, db_status, workflows, requests>>
    /\ UNCHANGED notEntryVars

\* workflow.process_video(file_path, task_id, enable_multimodal=...,
\* keep_temp=...): process_video has no parameter enable_multimodal, the
\* call raises TypeError before the body runs; the call was made for t
process_video_batch_call(wf, t) == [wf EXCEPT !.calls = @ \cup {t}]

\* the loop "for task_id in task_ids" on the one workflow wf
RECURSIVE BatchLoop(_, _, _, _)
BatchLoop(wf, ts, i, file_ok) ==
    IF i > Len(ts) THEN wf
    ELSE IF ts[i] \notin file_ok THEN BatchLoop(wf, ts, i + 1, file_ok)
    ELSE BatchLoop(process_video_batch_call(wf, ts[i]), ts, i + 1, file_ok)

\* the background job of batch_process_videos: one workflow for the job;
\* a task without metadata or file fails, the call for any other task
\* raises and the task fails
batch_process_background(ts) ==
    /\ [kind |-> "batch", tasks |-> ts] \in background
    /\ background' = background \ {[kind |-> "batch", tasks |-> ts]}
    /\ \E generator_ok \in BOOLEAN, file_ok \in SUBSET Range(ts) :
          workflows' = Append(workflows,
              BatchLoop(VideoProcessingWorkflow("batch", TRUE, None, generator_ok),
                        ts, 1, file_ok))
    /\ db_status' = [t \in TaskIds |-> IF t \in Range(ts) THEN "failed" ELSE db_status[t]]
    /\ UNCHANGED <<meta_status, requests>>
    /\ UNCHANGED notEntryVars

EntryNext ==
    \/ \E t \in TaskIds : start_processing(t)
    \/ \E t \in TaskIds : download_from_url(t)
    \/ \E t \in TaskIds : download_and_process_video(t)
    \/ \E ts \in TaskLists : batch_process_videos(ts)
    \/ \E ts \in TaskLists : batch_process_background(ts)

SpecEntry == EntryInit /\ [][EntryNext]_vars


(***************************************************************************)
(* SpecFn: single calls of align_frames_with_text, _choose_fps and         *)
(* _prefilter_by_hash on arguments drawn from bounded sets.                 *)
(***************************************************************************)
\* _to_base64 raises for the file with this content (open fails)
Base64Fails(kind) == kind = "x"

\* generate_embeddings(paths) called without a lock, on frames fr (records
\* [p, kind]) already prefiltered, from index i: a cached path is a hit, an
\* unreadable one is skipped, the others of the batch go to the provider;
\* the call of a batch in failing raises and the batch is dropped.  Returns
\* embeds, success, the cache and, as history, the batches handed to the
\* provider (calls).
RECURSIVE GenEmbLoop(_, _, _, _, _, _, _)
GenEmbLoop(fr, i, cache, embeds, success, failing, calls) ==
    IF i > Len(fr)
    THEN [embeds |-> embeds, success |-> success, cache |-> cache, calls |-> calls]
    ELSE LET batch == SubSeq(fr, i, Min(i + BatchSz - 1, Len(fr)))
             Readable(f) == ~Base64Fails(f.kind)
             hit == SeqFilterInCache(batch, cache, TRUE)
             need == SelectSeq(SeqFilterInCache(batch, cache, FALSE), Readable)
             e2 == embeds \o [j \in 1..Len(hit) |-> cache[hit[j].p]]
             s2 == success \o [j \in 1..Len(hit) |-> hit[j].p]
             emb == [j \in 1..Len(need) |-> ImageVec(need[j].kind)]
             new == {need[j].p : j \in 1..Len(need)}
             cache2 == [p \in DOMAIN cache \cup new |->
                          IF p \in new
                          THEN emb[CHOOSE j \in 1..Len(need) :
                                     need[j].p = p /\ \A j2 \in 1..Len(need) :
                                                        need[j2].p = p => j2 <= j]
                          ELSE cache[p]]
             sent == Append(calls, [j \in 1..Len(need) |-> need[j].p])
         IN  IF need = <<>>
             THEN GenEmbLoop(fr, i + BatchSz, cache, e2, s2, failing, calls)
             ELSE IF i \in failing
             THEN GenEmbLoop(fr, i + BatchSz, cache, e2, s2, failing, sent)
             ELSE GenEmbLoop(fr, i + BatchSz, cache2, e2 \o emb,
                             s2 \o [j \in 1..Len(need) |-> need[j].p], failing, sent)

generate_embeddings(fr, cache, failing) ==
    GenEmbLoop(prefilter_by_hash(fr), 1, cache, <<>>, <<>>, failing, <<>>)

\* Mutant of RankTop: the frames are ranked by ascending similarity.
RankTopAscending(valid_paths, img_vecs, t, max_frames) ==
    LET sims == [i \in 1..Len(img_vecs) |-> calc_similarity(t, img_vecs[i])]
        idx == SortedDesc(sims)
        n == Len(idx)
    IN  [j \in 1..Min(max_frames, n) |-> valid_paths[idx[n + 1 - j]]]

\* lines 284-286: sims, the stable descending sort, the first max_frames
RankTop(valid_paths, img_vecs, t, max_frames) ==
    LET sims == [i \in 1..Len(img_vecs) |-> calc_similarity(t, img_vecs[i])]
        idx == SortedDesc(sims)
    IN  [j \in 1..Min(max_frames, Len(idx)) |-> valid_paths[idx[j]]]

\* Mutant of AlignFallback: the fallback returns every path.
AlignFallbackAll(frame_paths, max_frames) == frame_paths

\* frame_paths[:max_frames]
AlignFallback(frame_paths, max_frames) == Take(frame_paths, max_frames)

\* align_frames_with_text(frame_paths, text_summary, max_frames, embeds) on
\* the cache given; kind[p] is the content of the file at p.  text_ok: the
\* text call returns; failing: the on-demand batches whose call raises.
\* Returns the paths and the cache after the call and, as history, the cache
\* as generate_embeddings left it (gen_cache) and the vector each candidate
\* path was scored with (scored).
align_frames_with_text(frame_paths, kind, text_summary, max_frames, embeds, cache, text_ok, failing) ==
    IF frame_paths = <<>> \/ IsBlank(text_summary)
    THEN [result |-> AlignFallback(frame_paths, max_frames), cache |-> cache,
          gen_cache |-> cache, scored |-> <<>>]
    ELSE IF ~text_ok
    THEN [result |-> AlignFallback(frame_paths, max_frames), cache |-> cache,
          gen_cache |-> cache, scored |-> <<>>]
    ELSE LET HasVec(p) == p \in DOMAIN embeds \/ p \in DOMAIN cache
             NoVec(p) == ~HasVec(p)
             VecOf(p) == IF p \in DOMAIN embeds THEN embeds[p] ELSE cache[p]
             valid0 == SelectSeq(frame_paths, HasVec)
             missing == SelectSeq(frame_paths, NoVec)
             gen == generate_embeddings([j \in 1..Len(missing) |->
                                            [p |-> missing[j], kind |-> kind[missing[j]]]],
                                        cache, failing)
             m == Min(Len(missing), Len(gen.embeds))
             zipped == {missing[j] : j \in 1..m}
             cache2 == [p \in DOMAIN gen.cache \cup zipped |->
                          IF p \in zipped
                          THEN gen.embeds[CHOOSE j \in 1..m : missing[j] = p]
                          ELSE gen.cache[p]]
             valid_paths == valid0 \o SubSeq(missing, 1, m)
             img_vecs == [j \in 1..Len(valid0) |-> VecOf(valid0[j])] \o SubSeq(gen.embeds, 1, m)
             scored == [j \in 1..Len(valid_paths) |-> <<valid_paths[j], img_vecs[j]>>]
         IN  IF img_vecs = <<>>
             THEN [result |-> AlignFallback(frame_paths, max_frames), cache |-> cache2,
                   gen_cache |-> gen.cache, scored |-> scored]
             ELSE [result |-> RankTop(valid_paths, img_vecs, TextVec(text_summary), max_frames),
                   cache |-> cache2, gen_cache |-> gen.cache, scored |-> scored]

\* contents of the frame files handed to align_frames_with_text; "x" is a
\* file that cannot be opened
AlignKinds == {"a", "c", "e", "x"}

\* where a frame's vector is when align_frames_with_text is called
VecSources == {"embeds", "cache", "none"}

AlignInputs ==
    {[fn |-> "align", kind |-> kd, src |-> sr, text_summary |-> ts, max_frames |-> mf] :
        kd \in SeqsUpTo(AlignKinds, MaxFrames), sr \in SeqsUpTo(VecSources, MaxFrames),
        ts \in {"  ", "beta"}, mf \in 1..max_aligned_frames}

\* the paths of an align input: 1..n in order
PathsOf(in) == [j \in 1..Len(in.kind) |-> j]

\* the vectors an align input has in src (embeds argument or cache)
VecsIn(in, src) ==
    [p \in {j \in 1..Len(in.kind) : in.src[j] = src} |-> ImageVec(in.kind[p])]

\* rationals <<numerator, denominator>> with a positive denominator
RatLeq(a, b) == a[1] * b[2] <= b[1] * a[2]

RatEq(a, b) == a[1] * b[2] = b[1] * a[2]

\* Python's min(a, b) and max(a, b)
RatMin(a, b) == IF RatLeq(a, b) THEN a ELSE b

RatMax(a, b) == IF RatLeq(b, a) THEN a ELSE b

\* self.fps: frame_fps = 0.2
fps_default == <<1, 5>>

\* Mutant of choose_fps: the rate is not raised to fp_min.
choose_fps_no_floor(dur_ms) ==
    IF dur_ms <= 0 THEN fps_default
    ELSE RatMin(<<1, 1>>, <<10 * 1000, dur_ms>>)

\* _choose_fps(dur, target=10, fp_min=0.1, fp_max=1.0), dur in milliseconds
choose_fps(dur_ms) ==
    IF dur_ms <= 0 THEN fps_default
    ELSE RatMax(<<1, 10>>, RatMin(<<1, 1>>, <<10 * 1000, dur_ms>>))

\* segment durations in milliseconds: whole seconds from -2 to MaxDurSec and
\* the values one millisecond around the two clamping points
FpsDurations ==
    {1000 * d : d \in -2..MaxDurSec} \cup {1, 9999, 10001, 99999, 100001}

FpsInputs == {[fn |-> "fps", dur_ms |-> d] : d \in FpsDurations}

CallChooseFps ==
    /\ fn_pc = "input"
    /\ fn_in.fn = "fps"
    /\ fn_out' = choose_fps(fn_in.dur_ms)
    /\ fn_pc' = "done"
    /\ UNCHANGED fn_in
    /\ UNCHANGED notFnVars

\* contents of the frame files handed to _prefilter_by_hash; "x" is unreadable
PrefilterKinds == {"a", "b", "x"}

PrefilterInputs ==
    {[fn |-> "prefilter", kind |-> kd] : kd \in SeqsUpTo(PrefilterKinds, MaxLen)}

CallPrefilter ==
    /\ fn_pc = "input"
    /\ fn_in.fn = "prefilter"
    /\ fn_out' = prefilter_by_hash([j \in 1..Len(fn_in.kind) |->
                                       [p |-> j, kind |-> fn_in.kind[j]]])
    /\ fn_pc' = "done"
    /\ UNCHANGED fn_in
    /\ UNCHANGED notFnVars

\* the number of batches generate_embeddings cuts n paths into
BatchStarts(n) == {i \in 1..n : (i - 1) % BatchSz = 0}

\* contents of the frame files handed to generate_embeddings: two files of
\* one content share a hash, "x" cannot be opened
EmbedKinds == {"a", "c", "e", "x"}

\* generate_embeddings(paths) on a cache that holds the vectors of the paths
\* marked cached (a file that cannot be opened has none)
GenEmbInputs ==
    {in \in {[fn |-> "genemb", kind |-> kd, cached |-> ch] :
                kd \in SeqsUpTo(EmbedKinds, MaxFrames), ch \in SeqsUpTo(BOOLEAN, MaxFrames)} :
        /\ Len(in.kind) = Len(in.cached)
        /\ \A j \in 1..Len(in.kind) : in.kind[j] = "x" => ~in.cached[j]}

\* the frames of an input, at paths 1..n, and the cache it starts from
FramesOf(in) == [j \in 1..Len(in.kind) |-> [p |-> j, kind |-> in.kind[j]]]

CacheOf(in) == [p \in {j \in 1..Len(in.kind) : in.cached[j]} |-> ImageVec(in.kind[p])]

CallGenEmb ==
    /\ fn_pc = "input"
    /\ fn_in.fn = "genemb"
    /\ \E failing \in SUBSET BatchStarts(Len(fn_in.kind)) :
          fn_out' = [failing |-> failing,
                     ret |-> generate_embeddings(FramesOf(fn_in), CacheOf(fn_in), failing)]
    /\ fn_pc' = "done"
    /\ UNCHANGED fn_in
    /\ UNCHANGED notFnVars

\* process_video_frames from the extracted frames to the call of
\* remove_duplicates (lines 176-186): the two arguments of that call
DedupArgs(extracted, cache, failing) ==
    LET frames == prefilter_by_hash(extracted)
        gen == generate_embeddings(frames, cache, failing)
    IN  [paths |-> IF Len(gen.embeds) # Len(frames) THEN gen.success ELSE PathsIn(frames),
         embeds |-> gen.embeds]

\* process_video_frames on a temp_dir whose files are the input's frames
ProcessInputs ==
    {[fn |-> "process", kind |-> in.kind, cached |-> in.cached] : in \in GenEmbInputs}

CallProcessFrames ==
    /\ fn_pc = "input"
    /\ fn_in.fn = "process"
    /\ \E failing \in SUBSET BatchStarts(Len(fn_in.kind)) :
          fn_out' = [failing |-> failing,
                     ret |-> DedupArgs(FramesOf(fn_in), CacheOf(fn_in), failing)]
    /\ fn_pc' = "done"
    /\ UNCHANGED fn_in
    /\ UNCHANGED notFnVars

\* the directory tempfile.mkdtemp(prefix="video_dedup_") makes for one call
MkdTemp == "video_dedup_"

\* the temp_dir argument: None or a path of the caller
TempDirArgs == {None, "caller_dir"}

\* Mutant of process_video_frames: the cleanup runs on the normal return only.
process_video_frames_no_finally(extracted, cache, output_dir, temp_dir, keep_temp, dirs, tool_ok, failing, save_ok, rm_ok) ==
    LET temp_created == temp_dir = None
        dir == IF temp_created THEN MkdTemp ELSE temp_dir
        dirs1 == dirs \cup {dir}
        args == DedupArgs(extracted, cache, failing)
        unique == remove_duplicates(args.paths, args.embeds, sim_thresh)
        exc == IF ~tool_ok THEN "CalledProcessError"
               ELSE IF unique.err # None THEN unique.err
               ELSE IF ~save_ok THEN "OSError"
               ELSE None
        cleanup == temp_created /\ ~keep_temp /\ exc = None
    IN  [exc |-> exc,
         saved |-> IF exc = None THEN save_unique_frames(unique.result, output_dir) ELSE <<>>,
         rmtree |-> IF cleanup THEN {dir} ELSE {},
         dirs |-> IF cleanup /\ rm_ok THEN dirs1 \ {dir} ELSE dirs1]

\* process_video_frames with the directories it makes and removes.  dirs: the
\* directories that exist before the call; tool_ok, save_ok: the frame tool
\* and os.makedirs(output_dir) succeed; rm_ok: shutil.rmtree succeeds.
\* Result: the exception that leaves the call (None: normal return), the
\* saved paths, the directories rmtree was called on, the directories that
\* exist afterwards.
process_video_frames(extracted, cache, output_dir, temp_dir, keep_temp, dirs, tool_ok, failing, save_ok, rm_ok) ==
    LET temp_created == temp_dir = None
        dir == IF temp_created THEN MkdTemp ELSE temp_dir
        dirs1 == dirs \cup {dir}
        args == DedupArgs(extracted, cache, failing)
        unique == remove_duplicates(args.paths, args.embeds, sim_thresh)
        exc == IF ~tool_ok THEN "CalledProcessError"
               ELSE IF unique.err # None THEN unique.err
               ELSE IF ~save_ok THEN "OSError"
               ELSE None
        cleanup == temp_created /\ ~keep_temp
    IN  [exc |-> exc,
         saved |-> IF exc = None THEN save_unique_frames(unique.result, output_dir) ELSE <<>>,
         rmtree |-> IF cleanup THEN {dir} ELSE {},
         dirs |-> IF cleanup /\ rm_ok THEN dirs1 \ {dir} ELSE dirs1]

\* calls of process_video_frames: the frames the tool would extract, the
\* temp_dir and keep_temp arguments, and the directories existing before
TempInputs ==
    {[fn |-> "temp", kind |-> in.kind, cached |-> in.cached,
      temp_dir |-> td, keep_temp |-> kt, dirs |-> ds] :
        in \in {g \in GenEmbInputs : Len(g.kind) <= MaxTempFrames},
        td \in TempDirArgs, kt \in BOOLEAN, ds \in SUBSET {"caller_dir"}}

CallProcessTemp ==
    /\ fn_pc = "input"
    /\ fn_in.fn = "temp"
    /\ \E tool_ok \in BOOLEAN, save_ok \in BOOLEAN, rm_ok \in BOOLEAN,
          failing \in SUBSET BatchStarts(Len(fn_in.kind)) :
          fn_out' = [tool_ok |-> tool_ok, save_ok |-> save_ok, rm_ok |-> rm_ok,
                     failing |-> failing,
                     ret |-> process_video_frames(FramesOf(fn_in), CacheOf(fn_in),
                                "output_dir", fn_in.temp_dir, fn_in.keep_temp,
                                fn_in.dirs, tool_ok, failing, save_ok, rm_ok)]
    /\ fn_pc' = "done"
    /\ UNCHANGED fn_in
    /\ UNCHANGED notFnVars

FnInit ==
    /\ sim_thresh = <<9, 10>>
    /\ DedupIdle /\ OrchIdle /\ EntryIdle /\ TaskIdle
    /\ fn_pc = "input"
    /\ fn_in \in {in \in AlignInputs :
                      /\ Len(in.kind) = Len(in.src)
                      /\ \A j \in 1..Len(in.kind) : in.kind[j] = "x" => in.src[j] = "none"}
                   \cup FpsInputs
                   \cup PrefilterInputs \cup GenEmbInputs \cup ProcessInputs
                   \cup TempInputs
    /\ fn_out = None

CallAlign ==
    /\ fn_pc = "input"
    /\ fn_in.fn = "align"
    /\ \E text_ok \in BOOLEAN, failing \in SUBSET BatchStarts(Len(fn_in.kind)) :
          fn_out' = [text_ok |-> text_ok, failing |-> failing,
                     ret |-> align_frames_with_text(PathsOf(fn_in), fn_in.kind,
                                fn_in.text_summary, fn_in.max_frames,
                                VecsIn(fn_in, "embeds"), VecsIn(fn_in, "cache"),
                                text_ok, failing)]
    /\ fn_pc' = "done"
    /\ UNCHANGED fn_in
    /\ UNCHANGED notFnVars

FnNext ==
    \/ CallAlign
    \/ CallGenEmb
    \/ CallProcessFrames
    \/ CallProcessTemp
    \/ CallChooseFps
    \/ CallPrefilter

SpecFn == FnInit /\ [][FnNext]_vars

(***************************************************************************)
(* TaskManager (services/task_manager.py): metadata.json per task          *)
(* directory, written with json.dump and read with json.load.  created_at  *)
(* and updated_at hold wall-clock strings no method reads and are left     *)
(* out; progress_percent is in hundredths.  A task id is the index of its  *)
(* directory: uuid4 gives each create_task a fresh one.                    *)
(***************************************************************************)
Filenames == {"a.mp4", "b.mp4"}

\* the status arguments of the call sites in routers/ and services/
Statuses == {"processing", "completed", "failed"}

\* error_message at the call sites: str(e) with status "failed", else absent
ErrorMessageFor(status) == IF status = "failed" THEN "boom" ELSE None

Steps == {"asr"}

Callers == 1..MaxCallers

MetaKeys == <<"task_id", "original_filename", "status", "current_step",
              "progress_percent", "error_message">>

\* json.dump of one value: None becomes null, a number a number token, a
\* string a string token
JsonToken(key, v) ==
    IF key = "progress_percent" THEN <<"num", v>>
    ELSE IF key = "task_id" THEN <<"str", v>>
    ELSE IF v = None THEN <<"null">>
    ELSE <<"str", v>>

\* json.dump(metadata): the members in insertion order
JsonDump(md) == [i \in 1..Len(MetaKeys) |-> <<MetaKeys[i], JsonToken(MetaKeys[i], md[MetaKeys[i]])>>]

\* json.load: null becomes None; a repeated key keeps its last value
JsonLoad(doc) ==
    [key \in {doc[i][1] : i \in 1..Len(doc)} |->
        LET last == CHOOSE i \in 1..Len(doc) :
                        /\ doc[i][1] = key
                        /\ \A j \in 1..Len(doc) : doc[j][1] = key => j <= i
            tok == doc[last][2]
        IN  IF tok[1] = "null" THEN None ELSE tok[2]]

\* metadata_file.exists()
MetadataExists(t) == t \in DOMAIN metadata

\* load_metadata on an existing file
load_metadata(t) == JsonLoad(metadata[t])

\* _cumulative_weight, in hundredths
cumulative_weight(step) ==
    IF step = "extract_audio" THEN 10
    ELSE IF step = "asr" THEN 30
    ELSE IF step = "merge_text" THEN 50
    ELSE IF step = "summary" THEN 70
    ELSE 100

\* Mutant of UpdateStatusDict: the status is written only when it is terminal.
UpdateStatusDictTerminalOnly(md, status, error_message) ==
    LET m1 == IF status = "completed"
              THEN [md EXCEPT !.status = status, !.current_step = "completed",
                              !.progress_percent = 100]
              ELSE IF status = "failed"
              THEN [md EXCEPT !.status = status, !.current_step = "failed"]
              ELSE md
    IN  IF error_message # None THEN [m1 EXCEPT !.error_message = error_message] ELSE m1

\* update_status, lines 67-78: the changes made to the loaded dict
UpdateStatusDict(md, status, error_message) ==
    LET m0 == [md EXCEPT !.status = status]
        m1 == IF status = "completed"
              THEN [m0 EXCEPT !.current_step = "completed", !.progress_percent = 100]
              ELSE IF status = "failed"
              THEN [m0 EXCEPT !.current_step = "failed"]
              ELSE m0
    IN  IF error_message # None THEN [m1 EXCEPT !.error_message = error_message] ELSE m1

CallerIdle == [pc |-> "idle", op |-> None, t |-> 0, status |-> None, md |-> None]

\* create_task: a fresh directory, the initial metadata saved in it
create_task(c, original_filename) ==
    /\ tm_call[c].pc = "idle"
    /\ Len(metadata) < MaxMeta
    /\ LET task_id == Len(metadata) + 1
           md == [task_id |-> task_id, original_filename |-> original_filename,
                  status |-> "pending", current_step |-> "pending",
                  progress_percent |-> 0, error_message |-> None]
       IN  /\ metadata' = Append(metadata, JsonDump(md))
           /\ tm_hist' = Append(tm_hist, [created |-> original_filename,
                                          op |-> "create_task", status |-> "pending"])
    /\ UNCHANGED tm_call
    /\ UNCHANGED notTaskVars

\* update_status up to save_metadata: the file is loaded (404 when it is
\* missing) and the dict changed
update_status(c, t, status, error_message) ==
    /\ tm_call[c].pc = "idle"
    /\ tm_call' = [tm_call EXCEPT ![c] =
          IF ~MetadataExists(t) THEN [CallerIdle EXCEPT !.pc = "raised", !.t = t]
          ELSE [pc |-> "save", op |-> "update_status", t |-> t, status |-> status,
                md |-> UpdateStatusDict(load_metadata(t), status, error_message)]]
    /\ UNCHANGED <<metadata, tm_hist>>
    /\ UNCHANGED notTaskVars

\* update_step up to save_metadata
update_step(c, t, step) ==
    /\ tm_call[c].pc = "idle"
    /\ tm_call' = [tm_call EXCEPT ![c] =
          IF ~MetadataExists(t) THEN [CallerIdle EXCEPT !.pc = "raised", !.t = t]
          ELSE [pc |-> "save", op |-> "update_step", t |-> t, status |-> None,
                md |-> [load_metadata(t) EXCEPT !.current_step = step,
                            !.progress_percent = cumulative_weight(step)]]]
    /\ UNCHANGED <<metadata, tm_hist>>
    /\ UNCHANGED notTaskVars

\* save_metadata at the end of update_status or update_step; the method returns
save_metadata(c) ==
    /\ tm_call[c].pc = "save"
    /\ metadata' = [metadata EXCEPT ![tm_call[c].t] = JsonDump(tm_call[c].md)]
    /\ tm_hist' = [tm_hist EXCEPT ![tm_call[c].t].op = tm_call[c].op,
                                  ![tm_call[c].t].status = tm_call[c].status]
    /\ tm_call' = [tm_call EXCEPT ![c] = CallerIdle]
    /\ UNCHANGED notTaskVars

\* the HTTPException of load_metadata leaves the method
RaiseNotFound(c) ==
    /\ tm_call[c].pc = "raised"
    /\ tm_call' = [tm_call EXCEPT ![c] = CallerIdle]
    /\ UNCHANGED <<metadata, tm_hist>>
    /\ UNCHANGED notTaskVars

TaskInit ==
    /\ sim_thresh = <<9, 10>>
    /\ DedupIdle /\ OrchIdle /\ EntryIdle /\ FnIdle
    /\ metadata = <<>>
    /\ tm_hist = <<>>
    /\ tm_call = [c \in Callers |-> CallerIdle]

TaskNext ==
    \/ \E c \in Callers, f \in Filenames : create_task(c, f)
    \/ \E c \in Callers, t \in 1..MaxMeta, s \in Statuses :
          update_status(c, t, s, ErrorMessageFor(s))
    \/ \E c \in Callers, t \in 1..MaxMeta, st \in Steps : update_step(c, t, st)
    \/ \E c \in Callers : save_metadata(c)
    \/ \E c \in Callers : RaiseNotFound(c)

SpecTask == TaskInit /\ [][TaskNext]_vars

(***************************************************************************)
(* Claims about remove_duplicates (checked under SpecDedup).               *)
(***************************************************************************)
DedupDone == dd_pc \in {"once", "twice"} /\ dd_out.err = None

InputIdx == 1..Len(dd_embeds)

KeptSet == Range(dd_out.kept)

\* embedding similarity of input frames i and j is strictly above the threshold
SimAbove(i, j) == CalcSimilarityExceeds(dd_embeds[i], dd_embeds[j], sim_thresh)

\* embedding similarity of input frames i and j is at least the threshold
SimAtLeast(i, j) ==
    IF Norm2(dd_embeds[i]) = 0 \/ Norm2(dd_embeds[j]) = 0
    THEN 0 >= sim_thresh[1]
    ELSE ReachesThreshold([dot |-> Dot(dd_embeds[i], dd_embeds[j]),
                           n2 |-> Norm2(dd_embeds[i]) * Norm2(dd_embeds[j])], sim_thresh)

StrictlyIncreasing(s) == \A a, b \in 1..Len(s) : a < b => s[a] < s[b]

\* C6 as stated: of any two input frames whose similarity is >= the
\* threshold the output holds exactly one, survivors in input order.
C6_Original ==
    DedupDone =>
        /\ StrictlyIncreasing(dd_out.kept)
        /\ \A i, j \in InputIdx :
              (i < j /\ SimAtLeast(i, j)) => ((i \in KeptSet) # (j \in KeptSet))

\* C6 (amended): of any two input frames whose similarity is strictly above
\* the threshold the output never holds both (the later one is discarded
\* whenever the earlier one is kept), and the survivors keep their input order.
C6_DedupAtMostOne ==
    DedupDone =>
        /\ StrictlyIncreasing(dd_out.kept)
        /\ \A i, j \in InputIdx :
              (i < j /\ SimAbove(i, j)) => ~(i \in KeptSet /\ j \in KeptSet)

\* a kept frame, a later duplicate of it that was discarded, a later survivor
C6_Witness ==
    /\ DedupDone
    /\ \E i, j, k \in InputIdx :
          /\ i < j /\ j < k
          /\ SimAbove(i, j) /\ i \in KeptSet /\ j \notin KeptSet /\ k \in KeptSet

\* C7: the output of remove_duplicates is an order-preserving subsequence of
\* paths: the kept indices increase strictly within the input, the result is
\* no longer than the input, kept plus removed is the input length, and the
\* first path of a non-empty input is always kept.
C7_Subsequence ==
    DedupDone =>
        /\ StrictlyIncreasing(dd_out.kept)
        /\ KeptSet \subseteq 1..Len(dd_paths)
        /\ Len(dd_out.result) = Len(dd_out.kept)
        /\ \A a \in 1..Len(dd_out.kept) : dd_out.result[a] = dd_paths[dd_out.kept[a]]
        /\ Len(dd_out.result) <= Len(dd_paths)
        /\ Len(dd_out.result) + Cardinality((1..Len(dd_paths)) \ KeptSet) = Len(dd_paths)
        /\ (dd_paths # <<>> => dd_out.result # <<>> /\ dd_out.result[1] = dd_paths[1])

\* some frames removed, and more than the first one kept
C7_Witness ==
    /\ DedupDone
    /\ Len(dd_paths) >= 4
    /\ Len(dd_out.result) >= 2
    /\ Len(dd_out.result) < Len(dd_paths)

\* the scenario [v, v, w, x, x]: v, w, x pairwise not above the threshold
IsScenarioVVWXX ==
    /\ Len(dd_embeds) = 5
    /\ dd_embeds[1] = dd_embeds[2] /\ dd_embeds[4] = dd_embeds[5]
    /\ Norm2(dd_embeds[1]) > 0 /\ Norm2(dd_embeds[3]) > 0 /\ Norm2(dd_embeds[4]) > 0
    /\ ~SimAtLeast(1, 3) /\ ~SimAtLeast(1, 4) /\ ~SimAtLeast(3, 4)

\* C8: remove_duplicates is the greedy pass in input order: a frame is
\* discarded exactly when an earlier kept frame has similarity above the
\* threshold, so no two kept frames are above the threshold, and
\* [v, v, w, x, x] at threshold 0.9 keeps indices [0, 2, 3].
C8_Greedy ==
    DedupDone =>
        /\ \A i \in InputIdx :
              (i \notin KeptSet) <=> (\E k \in KeptSet : k < i /\ SimAbove(k, i))
        /\ \A i, j \in KeptSet : i # j => ~SimAbove(i, j)
        /\ (sim_thresh = <<9, 10>> /\ IsScenarioVVWXX) => dd_out.kept = <<1, 3, 4>>

C8_Witness ==
    /\ DedupDone
    /\ sim_thresh = <<9, 10>>
    /\ IsScenarioVVWXX
    /\ dd_out.result = <<1, 3, 4>>

\* C9: remove_duplicates applied to its own output returns it unchanged, and
\* an input whose pairwise similarities are all below the threshold is
\* returned unchanged.
C9_Idempotent ==
    /\ dd_pc = "twice" => (dd_out2.err = None /\ dd_out2.result = dd_out.result)
    /\ (DedupDone /\ \A i, j \in InputIdx : i < j => ~SimAtLeast(i, j))
          => dd_out.result = dd_paths

\* the second pass ran on an output from which the first pass removed frames
C9_Witness ==
    /\ dd_pc = "twice"
    /\ Len(dd_out.result) >= 3
    /\ Len(dd_out.result) < Len(dd_paths)
    /\ dd_out2.result = dd_out.result

\* input positions whose embedding has a non-zero norm, in input order
RECURSIVE NonZeroIdx(_, _)
NonZeroIdx(embeds, i) ==
    IF i > Len(embeds) THEN <<>>
    ELSE IF Norm2(embeds[i]) > 0 THEN <<i>> \o NonZeroIdx(embeds, i + 1)
    ELSE NonZeroIdx(embeds, i + 1)

IsNonZeroPath(p) == Norm2(dd_embeds[p]) > 0

\* C10: a zero-norm embedding is never discarded, never makes another frame
\* be discarded (the other frames fare as if it were not in the input), and
\* raises no error.
C10_ZeroNorm ==
    (dd_pc \in {"once", "twice"} /\ Len(dd_paths) = Len(dd_embeds)) =>
        LET nz == NonZeroIdx(dd_embeds, 1)
            without == remove_duplicates(nz, [a \in 1..Len(nz) |-> dd_embeds[nz[a]]],
                                         sim_thresh)
        IN  /\ dd_out.err = None
            /\ \A i \in InputIdx : Norm2(dd_embeds[i]) = 0 => i \in KeptSet
            /\ SelectSeq(dd_out.result, IsNonZeroPath) = without.result

\* a zero-norm frame between a kept frame and a later discarded duplicate
C10_Witness ==
    /\ DedupDone
    /\ \E i, z, j \in InputIdx :
          /\ i < z /\ z < j
          /\ Norm2(dd_embeds[z]) = 0 /\ z \in KeptSet
          /\ i \in KeptSet /\ SimAbove(i, j) /\ j \notin KeptSet

(***************************************************************************)
(* Claims about generate_multimodal_notes (checked under Spec).            *)
(***************************************************************************)
\* the result a segment yields when nothing fails and no other segment
\* runs: extract, prefilter, embed, dedup, save, align, save
ExpectedResult(k, seg) ==
    LET fr == prefilter_by_hash(extract_frames(k, ParseTime(seg.start_time).ms,
                                               ParseTime(seg.end_time).ms))
        paths == [j \in 1..Len(fr) |-> fr[j].p]
        embeds == [j \in 1..Len(fr) |-> ImageVec(fr[j].kind)]
        dd == remove_duplicates(paths, embeds, sim_thresh)
        saved == save_unique_frames(dd.result, SegDir(seg))
        embed_map == [sp \in Range(saved) |-> embeds[dd.kept[sp.n]]]
        key_frames ==
            IF enable_text_alignment /\ ~IsBlank(seg.summary) /\ saved # <<>>
            THEN save_unique_frames(AlignRanked(saved, embed_map, TextVec(seg.summary)),
                                    <<SegDir(seg), "aligned">>)
            ELSE saved
    IN  [segment_id |-> k, start_time |-> seg.start_time, end_time |-> seg.end_time,
         duration_seconds |-> ParseTime(seg.end_time).ms - ParseTime(seg.start_time).ms,
         summary |-> seg.summary, key_frames |-> key_frames,
         frame_count |-> Len(key_frames)]

\* C1: the assembled document holds exactly one entry per input segment, in
\* ascending index order (entry k has segment_id k and segment k's bounds
\* and summary), whatever the completion order and whichever segments fail.
C1_OrderedSegments ==
    orch_pc = "done" =>
        /\ Len(final.segments) = Len(summaries)
        /\ \A k \in Segs :
              /\ final.segments[k].segment_id = k
              /\ final.segments[k].start_time = summaries[k].start_time
              /\ final.segments[k].end_time = summaries[k].end_time
              /\ final.segments[k].summary = summaries[k].summary

\* two different segments, the second completed first, one of them failed
C1_Witness ==
    /\ orch_pc = "done"
    /\ Len(summaries) = 2
    /\ summaries[1] # summaries[2]
    /\ completed = <<2, 1>>
    /\ \E k \in Segs : local[k].fault = "raised"
    /\ Len(final.segments) = 2

\* C2 as stated: a segment with a stage that raised, the embedding call
\* included, ends with no key frames and a frame count of 0.
C2_Original ==
    orch_pc = "done" =>
        \A k \in Segs :
            local[k].fault \in {"raised", "degraded"} =>
                /\ final.segments[k].key_frames = <<>>
                /\ final.segments[k].frame_count = 0

\* C2 (amended): a segment with a stage whose exception left the stage
\* (timestamps, extraction, dedup, save) ends with no key frames, a frame
\* count of 0 and its own bounds and summary, and every segment that met no
\* failure of its own ends with the result it has when it runs alone.
C2_Isolation ==
    orch_pc = "done" =>
        \A k \in Segs :
            /\ local[k].fault = "raised" =>
                  /\ final.segments[k].key_frames = <<>>
                  /\ final.segments[k].frame_count = 0
                  /\ final.segments[k].start_time = summaries[k].start_time
                  /\ final.segments[k].end_time = summaries[k].end_time
                  /\ final.segments[k].summary = summaries[k].summary
            /\ local[k].fault = "none" =>
                  final.segments[k] = ExpectedResult(k, summaries[k])

\* segment 1 has well-formed bounds and a stage of it raised; segment 2 ran
\* beside it and kept its frames
C2_Witness ==
    /\ orch_pc = "done"
    /\ Len(summaries) = 2
    /\ ParseTime(summaries[1].end_time).ok
    /\ ParseTime(summaries[1].start_time).ms < ParseTime(summaries[1].end_time).ms
    /\ local[1].fault = "raised"
    /\ final.segments[1].frame_count = 0
    /\ local[2].fault = "none"
    /\ final.segments[2].frame_count = 3
    /\ completed = <<1, 2>>

\* C3: no exception of a segment leaves generate_multimodal_notes: the call
\* raises only for an empty summaries list, a run that is under way is never
\* stuck (a segment can step, or every result is in and the document can be
\* assembled), and it ends with a document that has every segment.
C3_AlwaysProduced ==
    /\ orch_exc # None => (summaries = <<>> /\ orch_pc = "raised")
    /\ orch_pc = "raised" => summaries = <<>>
    /\ orch_pc = "running" => (Collected = Segs \/ \E k \in Segs : CanStep(k))
    /\ orch_pc = "done" =>
          /\ Len(final.segments) = Len(summaries)
          /\ final.video_info.total_segments = Len(summaries)

\* a segment with a malformed end time, whose last line raised, beside a
\* segment with frames
C3_Witness ==
    /\ orch_pc = "done"
    /\ \E k, j \in Segs :
          /\ ~ParseTime(summaries[k].end_time).ok
          /\ local[k].future.exc
          /\ final.segments[k].frame_count = 0
          /\ final.segments[j].frame_count > 0

\* C4 as stated: at most one provider call (image batch or text query) is
\* in flight, and a thread in a provider call holds the lock.
C4_ProviderCallsLocked ==
    /\ Cardinality({k \in Segs : local[k].pc \in {"emb_call", "text_call"}}) <= 1
    /\ \A k \in Segs : local[k].pc \in {"emb_call", "text_call"} => lock = k

AlignDone == fn_pc = "done" /\ fn_in.fn = "align"

AlignCase == AlignDone /\ fn_in.kind # <<>> /\ ~IsBlank(fn_in.text_summary)

NoRepetition(s) == \A a, b \in 1..Len(s) : a # b => s[a] # s[b]

\* similarity of the text with the frame at path p, from the frame's content
SimToText(p) == calc_similarity(TextVec(fn_in.text_summary), ImageVec(fn_in.kind[p]))

\* C11 as stated: for non-empty kept_paths and a non-blank summary the call
\* returns exactly min(max_k, len(kept_paths)) paths, all from kept_paths and
\* none twice, whatever vectors are available.
C11_AlignmentBound ==
    AlignCase =>
        /\ Len(fn_out.ret.result) = Min(fn_in.max_frames, Len(fn_in.kind))
        /\ Range(fn_out.ret.result) \subseteq 1..Len(fn_in.kind)
        /\ NoRepetition(fn_out.ret.result)

\* no vector in embeds or cache, and every on-demand batch failed
NoVectorAvailable ==
    /\ \A p \in 1..Len(fn_in.src) : fn_in.src[p] = "none"
    /\ BatchStarts(Len(fn_in.kind)) \subseteq fn_out.failing

\* C12: with a blank summary, with a failed text call, or with no frame
\* vector at all, align_frames_with_text returns the first max_k paths in
\* their order (and always returns: it has no other outcome).
C12_Fallback ==
    AlignDone =>
        ((IsBlank(fn_in.text_summary) \/ ~fn_out.text_ok \/ NoVectorAvailable)
            => fn_out.ret.result = Take(PathsOf(fn_in), fn_in.max_frames))

\* the text call failed on more paths than max_k, with vectors at hand
C12_Witness ==
    /\ AlignCase
    /\ ~fn_out.text_ok
    /\ Len(fn_in.kind) > fn_in.max_frames
    /\ \A p \in 1..Len(fn_in.src) : fn_in.src[p] # "none"
    /\ fn_out.ret.result = Take(PathsOf(fn_in), fn_in.max_frames)

AllVectorsAvailable == \A p \in 1..Len(fn_in.src) : fn_in.src[p] # "none"

\* C13: with the text vector and every frame vector at hand the call
\* returns the max_k frames most similar to the text, most similar first,
\* frames of equal similarity in their kept_paths order.
C13_Ranking ==
    (AlignCase /\ fn_out.text_ok /\ AllVectorsAvailable) =>
        LET r == fn_out.ret.result
            Geq(p, q) == IPLeq(SimToText(q), SimToText(p))
            Before(p, q) == ~Geq(q, p) \/ (Geq(p, q) /\ Geq(q, p) /\ p < q)
        IN  /\ Len(r) = Min(fn_in.max_frames, Len(fn_in.kind))
            /\ Range(r) \subseteq 1..Len(fn_in.kind)
            /\ \A a, b \in 1..Len(r) : a < b => Before(r[a], r[b])
            /\ \A q \in (1..Len(fn_in.kind)) \ Range(r) : \A a \in 1..Len(r) : Before(r[a], q)

\* three frames, the first the least similar, the other two equal: the two
\* equal ones are returned in their order
C13_Witness ==
    /\ AlignCase /\ fn_out.text_ok /\ AllVectorsAvailable
    /\ fn_in.kind = <<"a", "c", "c">>
    /\ fn_in.max_frames = 2
    /\ fn_out.ret.result = <<2, 3>>

(***************************************************************************)
(* Further claims about generate_multimodal_notes (checked under Spec).    *)
(***************************************************************************)
\* C14 as stated: with text alignment enabled every segment of the document,
\* a segment with a blank summary included, has at most max_aligned_frames
\* key frames.
C14_AtMostMaxAligned ==
    (orch_pc = "done" /\ enable_text_alignment) =>
        \A k \in Segs : Len(final.segments[k].key_frames) <= max_aligned_frames

(***************************************************************************)
(* Claims about _choose_fps and _prefilter_by_hash (checked under SpecFn). *)
(***************************************************************************)
FpsDone == fn_pc = "done" /\ fn_in.fn = "fps"

\* C15: the rate is 10/duration clamped to [0.1, 1.0] for a duration > 0 and
\* the configured default for a duration <= 0; 100 s gives 0.1, 5 s gives
\* 1.0 and 0 s gives the default.
C15_AdaptiveFps ==
    FpsDone =>
        LET d == fn_in.dur_ms
        IN  /\ d <= 0 => fn_out = fps_default
            /\ (d > 0 /\ d > 100 * 1000) => RatEq(fn_out, <<1, 10>>)
            /\ (d > 0 /\ d < 10 * 1000) => RatEq(fn_out, <<1, 1>>)
            /\ (d >= 10 * 1000 /\ d <= 100 * 1000) => RatEq(fn_out, <<10 * 1000, d>>)
            /\ d = 100 * 1000 => RatEq(fn_out, <<1, 10>>)
            /\ d = 5 * 1000 => RatEq(fn_out, <<1, 1>>)

\* a segment longer than 100 s: the rate is held at 0.1
C15_Witness ==
    /\ FpsDone
    /\ fn_in.dur_ms = 120 * 1000
    /\ RatEq(fn_out, <<1, 10>>)
PrefilterDone == fn_pc = "done" /\ fn_in.fn = "prefilter"

\* C16: the prefilter returns its input frames in their order, holding of
\* the frames whose hash could be computed exactly the first one of every
\* hash value, and every frame whose hash failed, whatever came before it.
C16_Prefilter ==
    PrefilterDone =>
        LET n == Len(fn_in.kind)
            Hashable(i) == ~HashFails(fn_in.kind[i])
            keptIdx == {fn_out[j].p : j \in 1..Len(fn_out)}
        IN  /\ \A j \in 1..Len(fn_out) :
                  fn_out[j].p \in 1..n /\ fn_out[j].kind = fn_in.kind[fn_out[j].p]
            /\ \A a, b \in 1..Len(fn_out) : a < b => fn_out[a].p < fn_out[b].p
            /\ \A i \in 1..n : ~Hashable(i) => i \in keptIdx
            /\ \A i \in 1..n : Hashable(i) =>
                  (i \in keptIdx <=>
                     ~\E j \in 1..(i - 1) :
                          Hashable(j) /\ AHash(fn_in.kind[j]) = AHash(fn_in.kind[i]))

\* an unreadable frame between a frame and its duplicate, and a second one
\* after a frame of another hash: both are kept, the duplicate is dropped
C16_Witness ==
    /\ PrefilterDone
    /\ fn_in.kind = <<"a", "x", "a", "b", "x">>
    /\ [j \in 1..Len(fn_out) |-> fn_out[j].p] = <<1, 2, 4, 5>>
\* the frames of segment k that process_video_frames hands to
\* generate_embeddings, as paths
FramePathsOf(k) ==
    PathsIn(prefilter_by_hash(extract_frames(k, ParseTime(summaries[k].start_time).ms,
                                             ParseTime(summaries[k].end_time).ms)))

\* the key-frame count of segment k when exactly the frames outside failed
\* got a vector
CountWithout(k, failed) ==
    LET fr == prefilter_by_hash(extract_frames(k, ParseTime(summaries[k].start_time).ms,
                                               ParseTime(summaries[k].end_time).ms))
        NotFailed(f) == f.p \notin failed
        got == SelectSeq(fr, NotFailed)
        dd == remove_duplicates(PathsIn(got), [j \in 1..Len(got) |-> ImageVec(got[j].kind)],
                                sim_thresh)
    IN  IF IsBlank(summaries[k].summary) THEN Len(dd.result)
        ELSE Min(max_aligned_frames, Len(dd.result))

\* C17: a failed provider batch is not sent again and fails nothing: its
\* paths are not among the paths returned, the later batches are still sent,
\* vectors and paths returned have equal length, remove_duplicates gets
\* arguments of equal length (the frames that did get a vector), and the
\* segment ends without an exception, with the key frames those frames give
\* (none when every batch failed).
C17_FailedBatch ==
    \A k \in Segs :
        LET h == local[k].hist
            sentAll == UNION {Range(h.sent[a]) : a \in 1..Len(h.sent)}
        IN  /\ Len(local[k].embeds) = Len(local[k].success)
            /\ Range(local[k].success) \cap h.failed = {}
            /\ \A a, b \in 1..Len(h.sent) : a # b => Range(h.sent[a]) \cap Range(h.sent[b]) = {}
            /\ h.dd_len # <<>> =>
                  /\ sentAll = Range(FramePathsOf(k))
                  /\ h.dd_len[1] = h.dd_len[2]
                  /\ h.dd_len[1] = Cardinality(Range(FramePathsOf(k)) \ h.failed)
            /\ (local[k].pc = "finished" /\ h.failed # {}) =>
                  /\ ~local[k].future.exc
                  /\ local[k].fault # "raised" =>
                        local[k].future.result.frame_count = CountWithout(k, h.failed)
                  /\ h.failed = Range(FramePathsOf(k)) =>
                        local[k].future.result.key_frames = <<>>

\* a segment whose first batch failed and whose second batch was still sent
\* ends with a key frame, beside a segment all of whose batches failed
C17_Witness ==
    /\ orch_pc = "done"
    /\ \E k, j \in Segs :
          /\ Len(local[k].hist.sent) = 2
          /\ Range(local[k].hist.sent[1]) = local[k].hist.failed
          /\ final.segments[k].frame_count > 0
          /\ local[j].hist.failed = Range(FramePathsOf(j))
          /\ Len(local[j].hist.sent) = 2
          /\ ~local[j].future.exc
          /\ final.segments[j].frame_count = 0
\* the number of key-frame paths in segments i.. of the document
RECURSIVE KeyFramesFrom(_)
KeyFramesFrom(i) ==
    IF i > Len(final.segments) THEN 0
    ELSE Len(final.segments[i].key_frames) + KeyFramesFrom(i + 1)

\* C18: in the assembled document every segment's frame_count is the length
\* of its key_frames, total_segments is the number of input segments,
\* total_frames is the sum of the frame counts and segments_with_frames is
\* the number of segments with at least one frame.
C18_Statistics ==
    orch_pc = "done" =>
        /\ \A j \in 1..Len(final.segments) :
              final.segments[j].frame_count = Len(final.segments[j].key_frames)
        /\ final.video_info.total_segments = Len(summaries)
        /\ final.statistics.total_frames = KeyFramesFrom(1)
        /\ final.statistics.segments_with_frames =
              Cardinality({j \in 1..Len(final.segments) :
                              Len(final.segments[j].key_frames) > 0})

\* a document of two segments, one without key frames and one with several
C18_Witness ==
    /\ orch_pc = "done"
    /\ Len(summaries) = 2
    /\ \E j, k \in 1..Len(final.segments) :
          /\ final.segments[j].frame_count = 0
          /\ final.segments[k].frame_count > 1
    /\ final.statistics.segments_with_frames = 1
\* C19: create_task stores metadata with the returned task_id, the given
\* original_filename and status "pending"; right after update_status(t, s)
\* load_metadata(t) has status s; task_id and original_filename never change.
C19_TaskRoundTrip ==
    \A t \in DOMAIN metadata :
        LET md == load_metadata(t)
        IN  /\ md.task_id = t
            /\ md.original_filename = tm_hist[t].created
            /\ tm_hist[t].op = "create_task" => md.status = "pending"
            /\ tm_hist[t].op = "update_status" => md.status = tm_hist[t].status

\* a task whose step was updated and whose status was then set to
\* "processing", beside a task with another filename that is still pending
C19_Witness ==
    \E t, u \in DOMAIN metadata :
        /\ tm_hist[t].op = "update_status"
        /\ tm_hist[t].status = "processing"
        /\ load_metadata(t).current_step = "asr"
        /\ tm_hist[u].op = "create_task"
        /\ tm_hist[u].created # tm_hist[t].created
        /\ \A c \in Callers : tm_call[c].pc = "idle"
\* C20 as stated: a thread about to write the shared embedding cache holds
\* the provider lock whenever another segment pipeline is running.
C20_CacheWritesLocked ==
    \A k \in Segs :
        (local[k].pc = "emb_store" /\ Running \ {k} # {}) => lock = k
\* C21: the lock is held only by a thread inside a provider call (it is
\* released when the call returns and when it raises), and a run over a
\* non-empty summaries list ends with every segment finished and the
\* document assembled, whatever fails in a segment.
C21_NoBlocking ==
    /\ [](lock # 0 => local[lock].pc = "emb_call")
    /\ (summaries # <<>> =>
            <>(orch_pc = "done" /\ \A k \in Segs : local[k].pc = "finished"))

\* the document is assembled after a provider call of one segment raised and
\* another segment, whose calls came later, got its key frames
C21_Witness ==
    /\ orch_pc = "done"
    /\ \E k, j \in Segs :
          /\ local[k].hist.failed # {}
          /\ completed = <<k, j>>
          /\ Len(local[j].hist.sent) > 0
          /\ local[j].hist.failed = {}
          /\ final.segments[j].frame_count > 0
(***************************************************************************)
(* Claims about the embedding cache and the pairing of paths with vectors. *)
(***************************************************************************)
\* C22 as stated: a path that has a vector in the cache keeps that vector:
\* neither generate_embeddings nor the insert that follows it in
\* align_frames_with_text replaces it by a different one.
C22_CacheAppendOnly ==
    AlignDone =>
        LET before == VecsIn(fn_in, "cache")
            after_gen == fn_out.ret.gen_cache
            after == fn_out.ret.cache
        IN  /\ \A p \in DOMAIN before : p \in DOMAIN after_gen /\ after_gen[p] = before[p]
            /\ \A p \in DOMAIN after_gen : p \in DOMAIN after /\ after[p] = after_gen[p]
(***************************************************************************)
(* Claims about the stages of a segment (checked under Spec).              *)
(***************************************************************************)
IsPrefix(s, t) == Len(s) <= Len(t) /\ s = SubSeq(t, 1, Len(s))

\* the key frames of segment k's future, or none when it raised
KeyFramesOf(k) ==
    IF local[k].future.exc THEN <<>> ELSE local[k].future.result.key_frames

C24_AtMostTenFrames ==
    (FpsDone /\ fn_in.dur_ms > 0) =>
        fn_out[1] * fn_in.dur_ms <= 10 * 1000 * fn_out[2]
GenEmbDone == fn_pc = "done" /\ fn_in.fn = "genemb"

\* the uncached readable paths among those left by the hash prefilter
Uncached(in) ==
    {f.p : f \in {g \in Range(prefilter_by_hash(FramesOf(in))) :
                     ~in.cached[g.p] /\ ~Base64Fails(g.kind)}}

\* C25 as stated: the provider is called exactly ceil(u / batch_size) times
\* for u uncached readable paths, each call with at most batch_size paths,
\* and a cached path is never sent.
C25_CallsPerBatch ==
    GenEmbDone =>
        LET u == Cardinality(Uncached(fn_in))
            calls == fn_out.ret.calls
        IN  /\ Len(calls) = (u + BatchSz - 1) \div BatchSz
            /\ \A c \in 1..Len(calls) :
                  /\ Len(calls[c]) <= BatchSz
                  /\ Range(calls[c]) \subseteq Uncached(fn_in)
ProcessDone == fn_pc = "done" /\ fn_in.fn = "process"

\* C26 as stated: the vector handed to remove_duplicates at position i is
\* the embedding of the frame path at position i, for every prior content
\* of the cache and every pattern of batch failures.
C26_VectorsMatchPaths ==
    ProcessDone =>
        /\ Len(fn_out.ret.embeds) = Len(fn_out.ret.paths)
        /\ \A i \in 1..Len(fn_out.ret.paths) :
              fn_out.ret.embeds[i] = ImageVec(fn_in.kind[fn_out.ret.paths[i]])
\* C27 as stated: align_frames_with_text scores every candidate path with
\* the embedding of that path, also when vectors are computed on demand, and
\* the cache it leaves holds under every path that path's own embedding.
C27_ScoredWithOwnVector ==
    AlignDone =>
        LET IsOwn(p, v) == ~Base64Fails(fn_in.kind[p]) /\ v = ImageVec(fn_in.kind[p])
        IN  /\ \A j \in 1..Len(fn_out.ret.scored) :
                  IsOwn(fn_out.ret.scored[j][1], fn_out.ret.scored[j][2])
            /\ \A p \in DOMAIN fn_out.ret.cache : IsOwn(p, fn_out.ret.cache[p])
(***************************************************************************)
(* Claims about the files of a job (checked under Spec).                   *)
(***************************************************************************)
\* C28 as stated: the key-frame files of two distinct segments of a job are
\* disjoint, also for two segments with the same start_time and end_time.
C28_NoCollision ==
    \A j, k \in Segs :
        (j # k /\ local[j].pc = "finished" /\ local[k].pc = "finished")
            => Range(KeyFramesOf(j)) \cap Range(KeyFramesOf(k)) = {}


(***************************************************************************)
(* C29: process_video_frames cleans up after itself.  A call that made its *)
(* own temporary directory and was not told to keep it calls shutil.rmtree *)
(* on that directory whether it returns or an exception leaves it, and the *)
(* directory is gone when rmtree succeeded; with keep_temp the directory   *)
(* stays; rmtree is never called on a temp_dir of the caller, which exists *)
(* after the call.                                                         *)
(***************************************************************************)
TempDone == fn_pc = "done" /\ fn_in.fn = "temp"

C29_TempCleanup ==
    TempDone =>
        LET r == fn_out.ret
        IN  IF fn_in.temp_dir = None
            THEN /\ r.rmtree = IF fn_in.keep_temp THEN {} ELSE {MkdTemp}
                 /\ MkdTemp \in r.dirs <=> (fn_in.keep_temp \/ ~fn_out.rm_ok)
                 /\ r.dirs \ {MkdTemp} = fn_in.dirs
            ELSE /\ r.rmtree = {}
                 /\ r.dirs = fn_in.dirs \cup {fn_in.temp_dir}

\* an exception in the save stage leaves a call that made its own directory,
\* and the directory is gone
C29_Witness ==
    /\ TempDone
    /\ fn_in.temp_dir = None /\ ~fn_in.keep_temp
    /\ fn_out.ret.exc = "OSError"
    /\ fn_out.ret.rmtree = {MkdTemp}
    /\ MkdTemp \notin fn_out.ret.dirs


(***************************************************************************)
(* C30: a task is started at most once through the process route.  A       *)
(* request is accepted only for a pending task, and a request for a        *)
(* pending task is accepted unless it lacks credentials (401) or the       *)
(* user's quota is used up (429); an accepted request leaves the task      *)
(* "processing"; at most one request per task is accepted; an accepted     *)
(* task is "processing" while its job waits and "completed" or "failed"    *)
(* afterwards, never "pending" again.                                      *)
(***************************************************************************)
ProcessJob(t) == [kind |-> "process", tasks |-> <<t>>]

====
